---- MODULE Spec2Model ----
(***************************************************************************)
(* reponews: the incremental synchronisation engine.                       *)
(*                                                                         *)
(* The specifications below share the definitions and the variables.       *)
(*   SpecSession  one ActivityQuery session (make_query / parse_response   *)
(*                repeated while has_next_page) against a fixed upstream,  *)
(*                started from every cursor map within the bounds.         *)
(*   SpecSessionLive  SpecSession with the driver's loop kept running.      *)
(*   Spec         whole runs of main(): enumeration, one session per       *)
(*                repository, the filters, State.set_cursors, the          *)
(*                lifecycle events, the sort and State.save, repeated,     *)
(*                with upstream activity and renames between the runs.     *)
(*                A run may raise in any query and in sending.             *)
(*   SpecEnum     runs of main() in the dump-repos mode: enumeration       *)
(*                alone, over every short include and exclude list.        *)
(*   SpecActivity get_new_activity called twice from one state file over   *)
(*                a fixed upstream with ties, under every setting of the   *)
(*                filter preferences.                                      *)
(*   SpecCollision get_new_activity over two repositories whose releases   *)
(*                carry the same tag names.                                *)
(*   SpecDump     the dump-repos mode over a state file with a snapshot.   *)
(*   SpecTransport one call of Client.query against a server with its      *)
(*                answers ready.                                           *)
(*   SpecParse    one call of ActivityQuery.parse_response on a page of    *)
(*                tags with bogus nodes.                                   *)
(*   SpecPrefs    one call of Configuration.get_repo_activity_prefs.       *)
(*                                                                         *)
(* A cursor is an opaque string in the program.  Here the end-cursor of    *)
(* the i-th item of a feed is the number i, and None is Null.              *)
(***************************************************************************)
EXTENDS Integers, Sequences, FiniteSets, TLC

(***************************************************************************)
(* Bounds of the model.  PAGE_SIZE stands for qmanager.PAGE_SIZE, which is *)
(* 50 in the source: the model pages by 2 so that feeds of a few items     *)
(* span several pages.                                                     *)
(***************************************************************************)
PAGE_SIZE == 2
MaxHist == 5      \* SpecSession: the longest feed of a kind
MaxTypes == 2     \* SpecSession: the most kinds in a session
MaxItems == 3     \* Spec: the most items upstream, over all feeds
MaxRenames == 1   \* Spec: the most renames of a repository
MaxRules == 2     \* SpecEnum: the most specs in repos.include and in repos.exclude
MaxFeed == 3      \* SpecActivity: the length of the release feed and of the tag feed
MaxNodes == 3     \* SpecParse: the most nodes in the page of tags
MaxAnswers == 2   \* SpecTransport: the most answers the server has ready
MaxErrors == 2    \* SpecTransport: the most entries in a response's errors array

\* None, as a cursor or a date; None where an object is expected.
Null == -1

NoneObject == [None |-> TRUE]

Min(a, b) == IF a <= b THEN a ELSE b

Range(s) == {s[i] : i \in 1..Len(s)}

(***************************************************************************)
(* types.ActivityType: the kinds in declaration order, each with the name  *)
(* of its connection in the API.                                           *)
(***************************************************************************)
ActivityType == <<"issue", "pr", "discussion", "release", "tag", "star", "fork">>

Kinds == Range(ActivityType)

api_name(it) ==
    CASE it = "issue" -> "issues"
      [] it = "pr" -> "pullRequests"
      [] it = "discussion" -> "discussions"
      [] it = "release" -> "releases"
      [] it = "tag" -> "tags"
      [] it = "star" -> "stargazers"
      [] it = "fork" -> "forks"

TypeOfApiName(name) == CHOOSE it \in Kinds : api_name(it) = name

RepoIds == {"r1", "r2"}

\* The order in which a set of repository ids is listed.
RepoOrder == <<"r1", "r2">>

\* The kinds SpecSession asks for.
SessionKinds == {"issue", "release", "tag"}

\* Spec: the feeds that see activity, and the repositories that are renamed.
ActiveFeeds == {<<"r1", "release">>, <<"r1", "tag">>, <<"r2", "issue">>}

Renamed == {"r1"}

(***************************************************************************)
(* The remote service's data.  The n-th item of a feed, created at time t: *)
(* every second item is authored by the viewer, every second release is a  *)
(* prerelease and every third a draft, release n and tag n carry the same  *)
(* tag name, and every third tag points at something that is neither a     *)
(* commit nor an annotated tag.                                            *)
(***************************************************************************)
UserNode(n) == [login |-> IF n % 2 = 0 THEN "viewer" ELSE "other", isViewer |-> n % 2 = 0]

NewNode(it, n, t) ==
    CASE it \in {"issue", "pr", "discussion"} ->
            [number |-> n, createdAt |-> t, author |-> UserNode(n)]
      [] it = "release" ->
            [tagName |-> n, createdAt |-> t, author |-> UserNode(n),
             isDraft |-> n % 3 = 0, isPrerelease |-> n % 2 = 0]
      [] it = "tag" ->
            [name |-> n,
             target |-> IF n % 3 = 0
                        THEN [typename |-> "Blob"]
                        ELSE IF n % 3 = 1
                        THEN [typename |-> "Commit", committedDate |-> t,
                              author |-> [user |-> UserNode(n)]]
                        ELSE [typename |-> "Tag",
                              tagger |-> [date |-> t, user |-> UserNode(n)]]]
      [] it = "star" -> [starredAt |-> t, user |-> UserNode(n)]
      [] it = "fork" -> [createdAt |-> t, owner |-> UserNode(n)]

VARIABLES
    upstream,        \* [repo id -> [kind -> the feed: its nodes, oldest first]]
    repo_names,      \* [repo id -> the repository's current full name]
    state_file,      \* the state file: whether it exists, and the snapshot in it
    pc,              \* where the program is
    state,           \* the State object: old_state, new_state, state_events
    events,          \* get_new_activity's list of events
    repositories,    \* what get_repositories has still to yield
    activity,        \* the activity preferences of the repository in hand
    manager,         \* the ActivityQuery of the running session
    collected,       \* the events the session's driver has collected so far
    query,           \* the query the last round trip sent
    response,        \* the data the last round trip received
    cursors_before,  \* manager.cursors when the last round trip began
    yielded,         \* history: the events the last round trip's parse yielded
    cursors_in,      \* history: the cursors the session was started with
    trips,           \* history: the round trips the session has made
    viewer_repos,    \* [repo id -> the viewer's affiliation with the repository]
    config,          \* the configuration of this run
    log,             \* what enumeration has logged in this run
    loaded,          \* history: the state file as this run loaded it
    saves,           \* history: the calls of State.save in this run
    calls,           \* history: [repo id -> the sync call this run made for it,
                     \* and what the loop body made of its events]
    transport,       \* SpecTransport: the call of Client.query and what the server
                     \* will answer to its requests
    aborted,         \* history: the items that sync calls returned in the last
                     \* run, if it raised
    owed,            \* history: the items created while the state file held a
                     \* cursor of their repository and kind, and that no saved
                     \* cursor has reached
    first            \* history: the first sync call's result (SpecSession);
                     \* the kinds, cursors and snapshot of the first call of
                     \* get_new_activity and the length of its list (SpecActivity)

sessionVars == <<manager, collected, query, response, cursors_before, yielded,
                 cursors_in, trips>>

runVars == <<repo_names, viewer_repos, state_file, state, events, repositories,
             activity, config, log, loaded, saves, calls>>

vars == <<upstream, pc, sessionVars, runVars, transport, aborted, owed, first>>

\* No call of Client.query is followed request by request.
NoTransport ==
    [answers |-> <<>>, requests |-> 0, slept |-> <<>>, outcome |-> [pending |-> TRUE]]

(***************************************************************************)
(* The remote service's answer to one connection of a query.  A forward    *)
(* connection (first: $page_size, after: $cursor, oldest first) returns    *)
(* the next page after the cursor, the end-cursor of its last node (None   *)
(* when the page is empty) and whether more follow.  A last connection     *)
(* (last: 1) returns only the end-cursor of the newest item.               *)
(***************************************************************************)
\* A faulty variant: the latest-only connection asks for first: 1.
Connection_first(feed, conn, variables) ==
    IF conn.shape = "CONNECTION"
    THEN LET after == variables[conn.name \o "_cursor"]
             start == IF after = Null THEN 0 ELSE after
             last == Min(start + variables["page_size"], Len(feed))
         IN  [nodes |-> SubSeq(feed, start + 1, last),
              pageInfo |-> [endCursor |-> IF last > start THEN last ELSE Null,
                            hasNextPage |-> last < Len(feed)]]
    ELSE [pageInfo |-> [endCursor |-> IF Len(feed) > 0 THEN 1 ELSE Null]]

Connection(feed, conn, variables) ==
    IF conn.shape = "CONNECTION"
    THEN LET after == variables[conn.name \o "_cursor"]
             start == IF after = Null THEN 0 ELSE after
             last == Min(start + variables["page_size"], Len(feed))
         IN  [nodes |-> SubSeq(feed, start + 1, last),
              pageInfo |-> [endCursor |-> IF last > start THEN last ELSE Null,
                            hasNextPage |-> last < Len(feed)]]
    ELSE [pageInfo |-> [endCursor |-> IF Len(feed) > 0 THEN Len(feed) ELSE Null]]

Answer(up, q) ==
    [data |->
        [node |->
            [name \in {q.connections[i].name : i \in 1..Len(q.connections)} |->
                LET conn == CHOOSE c \in Range(q.connections) : c.name = name
                IN  Connection(up[q.variables["repo_id"]][TypeOfApiName(name)],
                               conn, q.variables)]]]

(***************************************************************************)
(* The event classes of types.py: from_node and is_mine of each kind.      *)
(***************************************************************************)
BogusEventError == [error |-> "BogusEventError"]

NewIssueoidEvent_from_node(it, repo, node) ==
    [event_type |-> it, timestamp |-> node.createdAt, repo |-> repo,
     number |-> node.number, author |-> node.author]

NewReleaseEvent_from_node(repo, node) ==
    [event_type |-> "release", timestamp |-> node.createdAt, repo |-> repo,
     tagName |-> node.tagName, author |-> node.author,
     isDraft |-> node.isDraft, isPrerelease |-> node.isPrerelease]

\* A faulty variant: the author of a commit is not looked at.
NewTagEvent_from_node_no_author(repo, node) ==
    LET target == node.target
    IN  IF target.typename = "Commit"
        THEN IF target.committedDate = Null
             THEN BogusEventError
             ELSE [event_type |-> "tag", timestamp |-> target.committedDate,
                   repo |-> repo, name |-> node.name, user |-> NoneObject]
        ELSE IF target.typename = "Tag"
        THEN IF target.tagger = NoneObject \/ target.tagger.date = Null
             THEN BogusEventError
             ELSE [event_type |-> "tag", timestamp |-> target.tagger.date,
                   repo |-> repo, name |-> node.name, user |-> target.tagger.user]
        ELSE BogusEventError

NewTagEvent_from_node(repo, node) ==
    LET target == node.target
    IN  IF target.typename = "Commit"
        THEN IF target.committedDate = Null
             THEN BogusEventError
             ELSE [event_type |-> "tag", timestamp |-> target.committedDate,
                   repo |-> repo, name |-> node.name,
                   user |-> IF target.author # NoneObject
                            THEN target.author.user ELSE NoneObject]
        ELSE IF target.typename = "Tag"
        THEN IF target.tagger = NoneObject \/ target.tagger.date = Null
             THEN BogusEventError
             ELSE [event_type |-> "tag", timestamp |-> target.tagger.date,
                   repo |-> repo, name |-> node.name, user |-> target.tagger.user]
        ELSE BogusEventError

NewStarEvent_from_node(repo, node) ==
    [event_type |-> "star", timestamp |-> node.starredAt, repo |-> repo,
     user |-> node.user]

NewForkEvent_from_node(repo, node) ==
    [event_type |-> "fork", timestamp |-> node.createdAt, repo |-> repo,
     fork |-> [owner |-> node.owner]]

from_node(it, repo, node) ==
    CASE it \in {"issue", "pr", "discussion"} -> NewIssueoidEvent_from_node(it, repo, node)
      [] it = "release" -> NewReleaseEvent_from_node(repo, node)
      [] it = "tag" -> NewTagEvent_from_node(repo, node)
      [] it = "star" -> NewStarEvent_from_node(repo, node)
      [] it = "fork" -> NewForkEvent_from_node(repo, node)

is_mine(ev) ==
    CASE ev.event_type \in {"issue", "pr", "discussion"} -> ev.author.isViewer
      [] ev.event_type = "release" -> ev.author # NoneObject /\ ev.author.isViewer
      [] ev.event_type = "tag" -> ev.user # NoneObject /\ ev.user.isViewer
      [] ev.event_type = "star" -> ev.user.isViewer
      [] ev.event_type = "fork" -> ev.fork.owner.isViewer

(***************************************************************************)
(* qmanager.ActivityQuery: a repository, the kinds asked for, the cursor   *)
(* map, and has_next_page, which a new manager holds true.                 *)
(***************************************************************************)
\* A faulty variant: every kind asked for gets a key, None when it had none.
ActivityQuery_fills_cursors(repo, types, cursors) ==
    [repo |-> repo, types |-> types,
     cursors |-> [it \in DOMAIN cursors \cup Range(types) |->
                    IF it \in DOMAIN cursors THEN cursors[it] ELSE Null],
     has_next_page |-> TRUE]

ActivityQuery(repo, types, cursors) ==
    [repo |-> repo, types |-> types, cursors |-> cursors, has_next_page |-> TRUE]

(***************************************************************************)
(* ActivityQuery.make_query: one connection per kind, forward from the     *)
(* stored cursor when the kind is a key of the cursor map (whatever the    *)
(* value), latest-only otherwise.                                          *)
(***************************************************************************)
\* A faulty variant: the page asked for starts one item after the cursor's.
make_query_skips(m) ==
    LET fwd == {i \in 1..Len(m.types) : m.types[i] \in DOMAIN m.cursors}
        names == {"repo_id"}
                   \cup (IF fwd # {} THEN {"page_size"} ELSE {})
                   \cup {api_name(m.types[i]) \o "_cursor" : i \in fwd}
        cursor_of(v) ==
            m.cursors[CHOOSE it \in Kinds : api_name(it) \o "_cursor" = v]
    IN  [connections |->
            [i \in 1..Len(m.types) |->
                [name |-> api_name(m.types[i]),
                 shape |-> IF i \in fwd THEN "CONNECTION" ELSE "LAST_CONNECTION"]],
         variables |->
            [v \in names |->
                IF v = "repo_id" THEN m.repo.id
                ELSE IF v = "page_size" THEN PAGE_SIZE
                ELSE IF cursor_of(v) = Null THEN Null
                ELSE cursor_of(v) + 1]]

make_query(m) ==
    LET fwd == {i \in 1..Len(m.types) : m.types[i] \in DOMAIN m.cursors}
        names == {"repo_id"}
                   \cup (IF fwd # {} THEN {"page_size"} ELSE {})
                   \cup {api_name(m.types[i]) \o "_cursor" : i \in fwd}
        cursor_of(v) ==
            m.cursors[CHOOSE it \in Kinds : api_name(it) \o "_cursor" = v]
    IN  [connections |->
            [i \in 1..Len(m.types) |->
                [name |-> api_name(m.types[i]),
                 shape |-> IF i \in fwd THEN "CONNECTION" ELSE "LAST_CONNECTION"]],
         variables |->
            [v \in names |->
                IF v = "repo_id" THEN m.repo.id
                ELSE IF v = "page_size" THEN PAGE_SIZE
                ELSE cursor_of(v)]]

(***************************************************************************)
(* ActivityQuery.parse_response: has_next_page is reset, then the kinds    *)
(* are handled in order.  parse_nodes is the inner loop over one kind's    *)
(* nodes, parse_types the outer loop from the i-th kind on; acc holds      *)
(* events, cursors and has_next_page as the loop has left them.            *)
(***************************************************************************)
\* A faulty variant: a bogus node ends the loop over the nodes.
RECURSIVE parse_nodes_stops(_, _, _, _)
parse_nodes_stops(it, repo, nodes, evs) ==
    IF nodes = <<>>
    THEN evs
    ELSE LET ev == from_node(it, repo, Head(nodes))
         IN  IF ev = BogusEventError
             THEN evs
             ELSE parse_nodes_stops(it, repo, Tail(nodes), Append(evs, ev))

RECURSIVE parse_nodes(_, _, _, _)
parse_nodes(it, repo, nodes, evs) ==
    IF nodes = <<>>
    THEN evs
    ELSE LET ev == from_node(it, repo, Head(nodes))
         IN  parse_nodes(it, repo, Tail(nodes),
                         IF ev = BogusEventError THEN evs ELSE Append(evs, ev))

SetCursor(cursors, it, c) ==
    [k \in DOMAIN cursors \cup {it} |-> IF k = it THEN c ELSE cursors[k]]

(***************************************************************************)
(* Faulty variants of parse_type, against which the properties below are   *)
(* tested for sensitivity.                                                 *)
(***************************************************************************)
\* The bootstrap branch too stores the end-cursor only when it is not None.
parse_type_bootstrap_skips_none(m, data, it, acc) ==
    LET root == data.data.node[api_name(it)]
        new_cursor == root.pageInfo.endCursor
    IN  IF it \in DOMAIN acc.cursors
        THEN [events |-> parse_nodes(it, m.repo, root.nodes, acc.events),
              cursors |-> IF new_cursor # Null
                          THEN SetCursor(acc.cursors, it, new_cursor)
                          ELSE acc.cursors,
              has_next_page |-> acc.has_next_page \/ root.pageInfo.hasNextPage]
        ELSE [events |-> acc.events,
              cursors |-> IF new_cursor # Null
                          THEN SetCursor(acc.cursors, it, new_cursor)
                          ELSE acc.cursors,
              has_next_page |-> acc.has_next_page]

\* The bootstrap branch stores None in place of the end-cursor.
parse_type_bootstrap_forgets(m, data, it, acc) ==
    LET root == data.data.node[api_name(it)]
        new_cursor == root.pageInfo.endCursor
    IN  IF it \in DOMAIN acc.cursors
        THEN [events |-> parse_nodes(it, m.repo, root.nodes, acc.events),
              cursors |-> IF new_cursor # Null
                          THEN SetCursor(acc.cursors, it, new_cursor)
                          ELSE acc.cursors,
              has_next_page |-> acc.has_next_page \/ root.pageInfo.hasNextPage]
        ELSE [events |-> acc.events,
              cursors |-> SetCursor(acc.cursors, it, Null),
              has_next_page |-> acc.has_next_page]

\* has_next_page is assigned from each kind's page, not or-ed into.
parse_type_assigns_has_next_page(m, data, it, acc) ==
    LET root == data.data.node[api_name(it)]
        new_cursor == root.pageInfo.endCursor
    IN  IF it \in DOMAIN acc.cursors
        THEN [events |-> parse_nodes(it, m.repo, root.nodes, acc.events),
              cursors |-> IF new_cursor # Null
                          THEN SetCursor(acc.cursors, it, new_cursor)
                          ELSE acc.cursors,
              has_next_page |-> root.pageInfo.hasNextPage]
        ELSE [events |-> acc.events,
              cursors |-> SetCursor(acc.cursors, it, new_cursor),
              has_next_page |-> acc.has_next_page]

\* The forward branch stores the end-cursor even when it is None.
parse_type_stores_none(m, data, it, acc) ==
    LET root == data.data.node[api_name(it)]
        new_cursor == root.pageInfo.endCursor
    IN  IF it \in DOMAIN acc.cursors
        THEN [events |-> parse_nodes(it, m.repo, root.nodes, acc.events),
              cursors |-> SetCursor(acc.cursors, it, new_cursor),
              has_next_page |-> acc.has_next_page \/ root.pageInfo.hasNextPage]
        ELSE [events |-> acc.events,
              cursors |-> SetCursor(acc.cursors, it, new_cursor),
              has_next_page |-> acc.has_next_page]

\* The forward branch stores the end-cursor only of a page that has a next one.
parse_type_drops_last_cursor(m, data, it, acc) ==
    LET root == data.data.node[api_name(it)]
        new_cursor == root.pageInfo.endCursor
    IN  IF it \in DOMAIN acc.cursors
        THEN [events |-> parse_nodes(it, m.repo, root.nodes, acc.events),
              cursors |-> IF new_cursor # Null /\ root.pageInfo.hasNextPage
                          THEN SetCursor(acc.cursors, it, new_cursor)
                          ELSE acc.cursors,
              has_next_page |-> acc.has_next_page \/ root.pageInfo.hasNextPage]
        ELSE [events |-> acc.events,
              cursors |-> SetCursor(acc.cursors, it, new_cursor),
              has_next_page |-> acc.has_next_page]

\* A faulty variant: the end-cursor of a page that is not the last is not stored.
parse_type_forgets_page(m, data, it, acc) ==
    LET root == data.data.node[api_name(it)]
        pageInfo == root.pageInfo
        new_cursor == pageInfo.endCursor
    IN  IF it \in DOMAIN acc.cursors
        THEN [events |-> parse_nodes(it, m.repo,
                            IF "nodes" \in DOMAIN root THEN root.nodes ELSE <<>>,
                            acc.events),
              cursors |-> IF new_cursor # Null /\ ~pageInfo.hasNextPage
                          THEN SetCursor(acc.cursors, it, new_cursor)
                          ELSE acc.cursors,
              has_next_page |-> acc.has_next_page \/ pageInfo.hasNextPage]
        ELSE [events |-> acc.events,
              cursors |-> SetCursor(acc.cursors, it, new_cursor),
              has_next_page |-> acc.has_next_page]

parse_type(m, data, it, acc) ==
    LET root == data.data.node[api_name(it)]
        pageInfo == root.pageInfo
        new_cursor == pageInfo.endCursor
    IN  IF it \in DOMAIN acc.cursors
        THEN [events |-> parse_nodes(it, m.repo,
                            IF "nodes" \in DOMAIN root THEN root.nodes ELSE <<>>,
                            acc.events),
              cursors |-> IF new_cursor # Null
                          THEN SetCursor(acc.cursors, it, new_cursor)
                          ELSE acc.cursors,
              has_next_page |-> acc.has_next_page \/ pageInfo.hasNextPage]
        ELSE [events |-> acc.events,
              cursors |-> SetCursor(acc.cursors, it, new_cursor),
              has_next_page |-> acc.has_next_page]

RECURSIVE parse_types(_, _, _, _)
parse_types(m, data, i, acc) ==
    IF i > Len(m.types)
    THEN acc
    ELSE parse_types(m, data, i + 1, parse_type(m, data, m.types[i], acc))

\* A faulty variant: has_next_page is not reset before the kinds are handled.
parse_response_no_reset(m, data) ==
    LET out == parse_types(m, data, 1,
                   [events |-> <<>>, cursors |-> m.cursors,
                    has_next_page |-> m.has_next_page])
    IN  [manager |-> [m EXCEPT !.cursors = out.cursors,
                               !.has_next_page = out.has_next_page],
         events |-> out.events]

\* A faulty variant: the cursors of the kinds the session does not ask for are
\* dropped from the map.
parse_response_only_types(m, data) ==
    LET out == parse_types(m, data, 1,
                   [events |-> <<>>, cursors |-> m.cursors, has_next_page |-> FALSE])
    IN  [manager |-> [m EXCEPT !.cursors = [it \in DOMAIN out.cursors \cap Range(m.types)
                                                |-> out.cursors[it]],
                               !.has_next_page = out.has_next_page],
         events |-> out.events]

parse_response(m, data) ==
    LET out == parse_types(m, data, 1,
                   [events |-> <<>>, cursors |-> m.cursors, has_next_page |-> FALSE])
    IN  [manager |-> [m EXCEPT !.cursors = out.cursors,
                               !.has_next_page = out.has_next_page],
         events |-> out.events]

(***************************************************************************)
(* One round trip of a session: the body of the driver's loop, which runs  *)
(* while manager.has_next_page.  The query is composed, the remote service *)
(* answers it from the upstream feeds, the answer is parsed and its events *)
(* are added to those collected.                                           *)
(***************************************************************************)
do_managed_query_step ==
    /\ pc = "session"
    /\ manager.has_next_page
    /\ LET q == make_query(manager)
           data == Answer(upstream, q)
           parsed == parse_response(manager, data)
       IN  /\ query' = q
           /\ response' = data
           /\ cursors_before' = manager.cursors
           /\ manager' = parsed.manager
           /\ collected' = collected \o parsed.events
           /\ yielded' = parsed.events
    /\ trips' = trips + 1
    /\ UNCHANGED cursors_in

(***************************************************************************)
(* The sync call for one repository: a new ActivityQuery over a copy of    *)
(* the stored cursors, driven until has_next_page is false.  It returns    *)
(* the collected events and the manager's cursors.                         *)
(***************************************************************************)
get_new_repo_activity_begin(repo, types, cursors) ==
    /\ manager' = ActivityQuery(repo, types, cursors)
    /\ collected' = <<>>
    /\ query' = [connections |-> <<>>, variables |-> <<>>]
    /\ response' = [data |-> [node |-> <<>>]]
    /\ cursors_before' = cursors
    /\ yielded' = <<>>
    /\ cursors_in' = cursors
    /\ trips' = 0

get_new_repo_activity_returns ==
    /\ pc = "session"
    /\ ~manager.has_next_page

(***************************************************************************)
(* core.State.                                                             *)
(***************************************************************************)
\* types.Repository: a full name is the pair of the owner's login and the name.
Repository(id, nameWithOwner) ==
    [id |-> id, owner |-> [login |-> nameWithOwner[1]], name |-> nameWithOwner[2],
     nameWithOwner |-> nameWithOwner]

RepoState(repo, cursors) == [repo |-> repo, cursors |-> cursors]

\* State.from_file: a missing file is an empty snapshot.
State_from_file(file) ==
    [old_state |-> IF file.exists THEN file.snapshot ELSE <<>>,
     new_state |-> <<>>,
     state_events |-> <<>>]

\* A faulty variant: the entry is looked up by id and full name.
get_cursors_by_name(st, repo) ==
    IF /\ repo.id \in DOMAIN st.old_state
       /\ st.old_state[repo.id].repo.nameWithOwner = repo.nameWithOwner
    THEN st.old_state[repo.id].cursors
    ELSE <<>>

get_cursors(st, repo) ==
    IF repo.id \in DOMAIN st.old_state THEN st.old_state[repo.id].cursors ELSE <<>>

Pop(d, key) == [k \in DOMAIN d \ {key} |-> d[k]]

Put(d, key, value) == [k \in DOMAIN d \cup {key} |-> IF k = key THEN value ELSE d[k]]

RepoTrackedEvent(now, repo) ==
    [event_type |-> "tracked", timestamp |-> now, repo |-> repo]

RepoRenamedEvent(now, repo, old_repo) ==
    [event_type |-> "renamed", timestamp |-> now, repo |-> repo, old_repo |-> old_repo]

RepoUntrackedEvent(now, repo) ==
    [event_type |-> "untracked", timestamp |-> now, repo |-> repo]

\* A faulty variant: the entry of old_state is read, not popped.
set_cursors_keeps_old(st, repo, cursors, now) ==
    [old_state |-> st.old_state,
     new_state |-> Put(st.new_state, repo.id, RepoState(repo, cursors)),
     state_events |->
        IF repo.id \notin DOMAIN st.old_state
        THEN Append(st.state_events, RepoTrackedEvent(now, repo))
        ELSE IF st.old_state[repo.id].repo.nameWithOwner # repo.nameWithOwner
        THEN Append(st.state_events,
                    RepoRenamedEvent(now, repo, st.old_state[repo.id].repo))
        ELSE st.state_events]

\* A faulty variant: a renamed repository is reported as newly tracked too.
set_cursors_renamed_is_new(st, repo, cursors, now) ==
    [old_state |-> Pop(st.old_state, repo.id),
     new_state |-> Put(st.new_state, repo.id, RepoState(repo, cursors)),
     state_events |->
        IF repo.id \notin DOMAIN st.old_state
        THEN Append(st.state_events, RepoTrackedEvent(now, repo))
        ELSE IF st.old_state[repo.id].repo.nameWithOwner # repo.nameWithOwner
        THEN st.state_events
             \o <<RepoRenamedEvent(now, repo, st.old_state[repo.id].repo),
                  RepoTrackedEvent(now, repo)>>
        ELSE st.state_events]

\* A faulty variant: a repository the old state knows is stored as the old
\* state has it.
set_cursors_stores_old_repo(st, repo, cursors, now) ==
    [old_state |-> Pop(st.old_state, repo.id),
     new_state |-> Put(st.new_state, repo.id,
                       RepoState(IF repo.id \in DOMAIN st.old_state
                                 THEN st.old_state[repo.id].repo ELSE repo,
                                 cursors)),
     state_events |->
        IF repo.id \notin DOMAIN st.old_state
        THEN Append(st.state_events, RepoTrackedEvent(now, repo))
        ELSE IF st.old_state[repo.id].repo.nameWithOwner # repo.nameWithOwner
        THEN Append(st.state_events,
                    RepoRenamedEvent(now, repo, st.old_state[repo.id].repo))
        ELSE st.state_events]

set_cursors(st, repo, cursors, now) ==
    [old_state |-> Pop(st.old_state, repo.id),
     new_state |-> Put(st.new_state, repo.id, RepoState(repo, cursors)),
     state_events |->
        IF repo.id \notin DOMAIN st.old_state
        THEN Append(st.state_events, RepoTrackedEvent(now, repo))
        ELSE IF st.old_state[repo.id].repo.nameWithOwner # repo.nameWithOwner
        THEN Append(st.state_events,
                    RepoRenamedEvent(now, repo, st.old_state[repo.id].repo))
        ELSE st.state_events]

\* The ids of S in the order they are listed.
Listed(S) == SelectSeq(RepoOrder, LAMBDA r : r \in S)

\* A faulty variant: what is left of old_state is not reported.
get_state_events_no_untracked(st, now) == st.state_events

get_state_events(st, now) ==
    st.state_events \o
    [i \in 1..Len(Listed(DOMAIN st.old_state)) |->
        RepoUntrackedEvent(now, st.old_state[Listed(DOMAIN st.old_state)[i]].repo)]

\* State.save: the file holds new_state.
save(st) == [exists |-> TRUE, snapshot |-> st.new_state]

(***************************************************************************)
(* config.ActivityPrefs and the resolved preferences the runs draw from.   *)
(***************************************************************************)
ActivityPrefs(kinds, prereleases, drafts, released_tags, my_activity) ==
    [issues |-> "issue" \in kinds, pull_requests |-> "pr" \in kinds,
     discussions |-> "discussion" \in kinds, releases |-> "release" \in kinds,
     prereleases |-> prereleases, drafts |-> drafts, tags |-> "tag" \in kinds,
     released_tags |-> released_tags, stars |-> "star" \in kinds,
     forks |-> "fork" \in kinds, my_activity |-> my_activity]

PrefConfigs ==
    {ActivityPrefs({}, TRUE, TRUE, FALSE, FALSE),
     ActivityPrefs({"issue"}, TRUE, TRUE, FALSE, FALSE),
     ActivityPrefs({"issue", "release", "tag"}, FALSE, TRUE, FALSE, TRUE)}

get_activity_types(prefs) ==
    (IF prefs.issues THEN <<"issue">> ELSE <<>>)
    \o (IF prefs.pull_requests THEN <<"pr">> ELSE <<>>)
    \o (IF prefs.discussions THEN <<"discussion">> ELSE <<>>)
    \o (IF prefs.releases THEN <<"release">> ELSE <<>>)
    \o (IF prefs.tags THEN <<"tag">> ELSE <<>>)
    \o (IF prefs.stars THEN <<"star">> ELSE <<>>)
    \o (IF prefs.forks THEN <<"fork">> ELSE <<>>)

(***************************************************************************)
(* The three filters of get_new_activity, in the order it applies them.    *)
(***************************************************************************)
\* A faulty variant: the flag is read the other way round.
filter_my_activity_inverted(prefs, new_events) ==
    IF prefs.my_activity
    THEN SelectSeq(new_events, LAMBDA ev : ~is_mine(ev))
    ELSE new_events

filter_my_activity(prefs, new_events) ==
    IF ~prefs.my_activity
    THEN SelectSeq(new_events, LAMBDA ev : ~is_mine(ev))
    ELSE new_events

\* A faulty variant: only the drafts flag is read.
filter_releases_drafts_only(prefs, new_events) ==
    IF prefs.releases /\ ~prefs.drafts
    THEN SelectSeq(new_events,
            LAMBDA ev : ev.event_type # "release" \/ ~ev.isDraft)
    ELSE new_events

filter_releases(prefs, new_events) ==
    IF prefs.releases /\ (~prefs.prereleases \/ ~prefs.drafts)
    THEN SelectSeq(new_events,
            LAMBDA ev : \/ ev.event_type # "release"
                        \/ ~ \/ ~prefs.prereleases /\ ev.isPrerelease
                             \/ ~prefs.drafts /\ ev.isDraft)
    ELSE new_events

\* A faulty variant: released_tags is not read.
filter_released_tags_always(prefs, new_events) ==
    IF prefs.releases /\ prefs.tags
    THEN LET events2 == SelectSeq(new_events, LAMBDA ev : ev.event_type # "tag")
             tag_events == SelectSeq(new_events, LAMBDA ev : ev.event_type = "tag")
             release_tags == {events2[i].tagName :
                                i \in {j \in 1..Len(events2) :
                                         events2[j].event_type = "release"}}
         IN  events2 \o SelectSeq(tag_events, LAMBDA ev : ev.name \notin release_tags)
    ELSE new_events

filter_released_tags(prefs, new_events) ==
    IF prefs.releases /\ prefs.tags /\ ~prefs.released_tags
    THEN LET events2 == SelectSeq(new_events, LAMBDA ev : ev.event_type # "tag")
             tag_events == SelectSeq(new_events, LAMBDA ev : ev.event_type = "tag")
             release_tags == {events2[i].tagName :
                                i \in {j \in 1..Len(events2) :
                                         events2[j].event_type = "release"}}
         IN  events2 \o SelectSeq(tag_events, LAMBDA ev : ev.name \notin release_tags)
    ELSE new_events

\* A faulty variant: the released_tags filter runs before the other two.
filter_events_tags_first(prefs, new_events) ==
    filter_releases(prefs, filter_my_activity(prefs, filter_released_tags(prefs, new_events)))

filter_events(prefs, new_events) ==
    filter_released_tags(prefs, filter_releases(prefs, filter_my_activity(prefs, new_events)))

\* The values new_events takes in the loop body: as returned by the sync call
\* and after each of the three filters.
new_events_stages(prefs, new_events) ==
    <<new_events,
      filter_my_activity(prefs, new_events),
      filter_releases(prefs, filter_my_activity(prefs, new_events)),
      filter_events(prefs, new_events)>>

(***************************************************************************)
(* events.sort(key=attrgetter("timestamp")): a stable sort.                *)
(***************************************************************************)
\* A faulty variant: an event is put before those of its own timestamp.
RECURSIVE insert_by_timestamp_before_ties(_, _)
insert_by_timestamp_before_ties(sorted, ev) ==
    IF sorted = <<>> \/ sorted[Len(sorted)].timestamp < ev.timestamp
    THEN Append(sorted, ev)
    ELSE Append(insert_by_timestamp_before_ties(SubSeq(sorted, 1, Len(sorted) - 1), ev),
                sorted[Len(sorted)])

RECURSIVE insert_by_timestamp(_, _)
insert_by_timestamp(sorted, ev) ==
    IF sorted = <<>> \/ sorted[Len(sorted)].timestamp <= ev.timestamp
    THEN Append(sorted, ev)
    ELSE Append(insert_by_timestamp(SubSeq(sorted, 1, Len(sorted) - 1), ev),
                sorted[Len(sorted)])

\* A faulty variant: the list is returned as it was built.
sort_by_timestamp_unsorted(evs) == evs

RECURSIVE sort_by_timestamp(_)
sort_by_timestamp(evs) ==
    IF evs = <<>>
    THEN <<>>
    ELSE insert_by_timestamp(sort_by_timestamp(SubSeq(evs, 1, Len(evs) - 1)),
                             evs[Len(evs)])

(***************************************************************************)
(* The repositories of the remote service and the three listings the       *)
(* client asks for.  A full name is the pair of the owner's login and the  *)
(* repository's name; names are numbered.  The logins sort in the order    *)
(* of OwnerOrder; only those of Users exist on the service.  A listing is  *)
(* ordered by name; a call either returns or raises NotFoundError.         *)
(***************************************************************************)
OwnerOrder == <<"o1", "o2", "o3">>

Users == {"o1", "o2"}

Affiliation == <<"OWNER", "ORGANIZATION_MEMBER", "COLLABORATOR">>

NotFoundError == [error |-> "NotFoundError"]

RECURSIVE OrderedByName(_, _, _)
OrderedByName(ids, names, n) ==
    IF ids = {}
    THEN <<>>
    ELSE Listed({r \in ids : names[r][2] = n})
         \o OrderedByName({r \in ids : names[r][2] # n}, names, n + 1)

RepositoriesOf(ids, names) ==
    [i \in 1..Cardinality(ids) |->
        Repository(OrderedByName(ids, names, 0)[i],
                   names[OrderedByName(ids, names, 0)[i]])]

get_affiliated_repos(names, viewer, affiliations) ==
    IF affiliations = <<>>
    THEN <<>>
    ELSE RepositoriesOf({r \in DOMAIN viewer \cap DOMAIN names :
                            viewer[r] \in Range(affiliations)}, names)

get_owner_repos(names, owner) ==
    IF owner \notin Users
    THEN [raises |-> NotFoundError]
    ELSE [returns |-> RepositoriesOf({r \in DOMAIN names : names[r][1] = owner}, names)]

get_repo(names, owner, name) ==
    IF \E r \in DOMAIN names : names[r] = <<owner, name>>
    THEN [returns |-> Repository(CHOOSE r \in DOMAIN names : names[r] = <<owner, name>>,
                                 <<owner, name>>)]
    ELSE [raises |-> NotFoundError]

(***************************************************************************)
(* config: the repository specs (owner/name, or owner/* with name None),   *)
(* ReposConfig, and of Configuration the parts enumeration reads: repos    *)
(* and the keys of activity.repo whose preferences have include set.       *)
(***************************************************************************)
RepoSpec(owner, name) == [owner |-> owner, name |-> name]

ReposConfig(affiliations, include, exclude) ==
    [affiliations |-> affiliations, include |-> include, exclude |-> exclude]

Configuration(repos, preffed_repos) ==
    [repos |-> repos, preffed_repos |-> preffed_repos]

\* defaultdict(set): a missing key reads as the empty set.
DictGet(d, key) == IF key \in DOMAIN d THEN d[key] ELSE {}

\* RepoInclusions.from_repos_config, the loop over the included specs.
RECURSIVE include_specs(_, _)
include_specs(rinc, specs) ==
    IF specs = <<>>
    THEN rinc
    ELSE LET rs == Head(specs)
         IN  include_specs(
                IF rs.name = Null
                THEN [rinc EXCEPT !.included_owners = @ \cup {rs.owner}]
                ELSE [rinc EXCEPT !.included_repos =
                        Put(@, rs.owner, DictGet(@, rs.owner) \cup {rs.name})],
                Tail(specs))

\* RepoInclusions.from_repos_config, the loop over the excluded specs.
RECURSIVE exclude_specs(_, _)
exclude_specs(rinc, specs) ==
    IF specs = <<>>
    THEN rinc
    ELSE LET rs == Head(specs)
         IN  exclude_specs(
                IF rs.name = Null
                THEN [rinc EXCEPT !.excluded_owners = @ \cup {rs.owner},
                                  !.included_owners = @ \ {rs.owner},
                                  !.included_repos = Pop(@, rs.owner)]
                ELSE [rinc EXCEPT !.excluded_repos =
                        Put(@, rs.owner, DictGet(@, rs.owner) \cup {rs.name}),
                                  !.included_repos =
                        Put(@, rs.owner, DictGet(@, rs.owner) \ {rs.name})],
                Tail(specs))

from_repos_config(repos_config, preffed_repos) ==
    exclude_specs(
        include_specs([included_owners |-> {}, excluded_owners |-> {},
                       included_repos |-> <<>>, excluded_repos |-> <<>>],
                      repos_config.include \o preffed_repos),
        repos_config.exclude)

\* Configuration.inclusions.
inclusions(cfg) == from_repos_config(cfg.repos, cfg.preffed_repos)

\* sorted(), of a set of logins and of a set of names.
SortedOwners(S) == SelectSeq(OwnerOrder, LAMBDA o : o \in S)

RECURSIVE SortedNames(_)
SortedNames(S) ==
    IF S = {}
    THEN <<>>
    ELSE LET least == CHOOSE x \in S : \A y \in S : x <= y
         IN  <<least>> \o SortedNames(S \ {least})

get_included_repo_owners(rinc) == SortedOwners(rinc.included_owners)

RECURSIVE get_included_repos_from(_, _)
get_included_repos_from(rinc, owners) ==
    IF owners = <<>>
    THEN <<>>
    ELSE (IF Head(owners) \notin rinc.included_owners
          THEN [i \in 1..Cardinality(rinc.included_repos[Head(owners)]) |->
                    <<Head(owners), SortedNames(rinc.included_repos[Head(owners)])[i]>>]
          ELSE <<>>)
         \o get_included_repos_from(rinc, Tail(owners))

get_included_repos(rinc) ==
    get_included_repos_from(rinc, SortedOwners(DOMAIN rinc.included_repos))

\* A faulty variant: only the excluded owners are looked at.
is_repo_excluded_by_owner(rinc, repo) ==
    repo.owner.login \in rinc.excluded_owners

is_repo_excluded(rinc, repo) ==
    \/ repo.owner.login \in rinc.excluded_owners
    \/ repo.name \in DictGet(rinc.excluded_repos, repo.owner.login)

(***************************************************************************)
(* Enumeration.  _get_repositories is a generator: what it hands to        *)
(* get_repositories is a stream of yields (a repository and whether it is  *)
(* affiliated) in which the warnings it logs on the way stand where they   *)
(* are logged.  get_repositories passes on the repositories that are not   *)
(* excluded and not seen before, and logs the others.                      *)
(***************************************************************************)
LogEntry(level, msg, about) == [level |-> level, msg |-> msg, about |-> about]

Yields(repos, is_affiliated) ==
    [i \in 1..Len(repos) |-> [yield |-> <<repos[i], is_affiliated>>]]

\* _get_repositories, the loop over the included owners.
RECURSIVE owners_repositories(_, _)
owners_repositories(names, owners) ==
    IF owners = <<>>
    THEN <<>>
    ELSE LET got == get_owner_repos(names, Head(owners))
         IN  (IF "raises" \in DOMAIN got
              THEN <<[log |-> LogEntry("WARNING", "User does not exist", <<Head(owners)>>)]>>
              ELSE Yields(got.returns, FALSE))
             \o owners_repositories(names, Tail(owners))

\* _get_repositories, the loop over the included repositories.
RECURSIVE single_repositories(_, _)
single_repositories(names, repos) ==
    IF repos = <<>>
    THEN <<>>
    ELSE LET got == get_repo(names, Head(repos)[1], Head(repos)[2])
         IN  (IF "raises" \in DOMAIN got
              THEN <<[log |-> LogEntry("WARNING", "Repository does not exist", Head(repos))]>>
              ELSE Yields(<<got.returns>>, FALSE))
             \o single_repositories(names, Tail(repos))

\* A faulty variant: a NotFoundError ends the enumeration.
RECURSIVE UntilRaised(_)
UntilRaised(raw) ==
    IF raw = <<>> \/ "log" \in DOMAIN Head(raw)
    THEN <<>>
    ELSE <<Head(raw)>> \o UntilRaised(Tail(raw))

p_get_repositories_raises(names, viewer, cfg) ==
    LET rinc == inclusions(cfg)
    IN  UntilRaised(
            Yields(get_affiliated_repos(names, viewer, cfg.repos.affiliations), TRUE)
            \o owners_repositories(names, get_included_repo_owners(rinc))
            \o single_repositories(names, get_included_repos(rinc)))

p_get_repositories(names, viewer, cfg) ==
    LET rinc == inclusions(cfg)
    IN  Yields(get_affiliated_repos(names, viewer, cfg.repos.affiliations), TRUE)
        \o owners_repositories(names, get_included_repo_owners(rinc))
        \o single_repositories(names, get_included_repos(rinc))

\* A faulty variant: the ids yielded are not remembered.
RECURSIVE get_repositories_from_forgets(_, _, _, _)
get_repositories_from_forgets(raw, rinc, seen, acc) ==
    IF raw = <<>>
    THEN acc
    ELSE IF "log" \in DOMAIN Head(raw)
    THEN get_repositories_from_forgets(Tail(raw), rinc, seen,
            [acc EXCEPT !.log = Append(@, Head(raw).log)])
    ELSE LET repo == Head(raw).yield[1]
         IN  IF is_repo_excluded(rinc, repo)
             THEN get_repositories_from_forgets(Tail(raw), rinc, seen,
                    [acc EXCEPT !.log = Append(@,
                        LogEntry("INFO", "excluded by config", repo.nameWithOwner))])
             ELSE IF repo.id \in seen
             THEN get_repositories_from_forgets(Tail(raw), rinc, seen,
                    [acc EXCEPT !.log = Append(@,
                        LogEntry("INFO", "fetched more than once", repo.nameWithOwner))])
             ELSE get_repositories_from_forgets(Tail(raw), rinc, seen,
                    [acc EXCEPT !.yielded = Append(@, Head(raw).yield)])

RECURSIVE get_repositories_from(_, _, _, _)
get_repositories_from(raw, rinc, seen, acc) ==
    IF raw = <<>>
    THEN acc
    ELSE IF "log" \in DOMAIN Head(raw)
    THEN get_repositories_from(Tail(raw), rinc, seen,
            [acc EXCEPT !.log = Append(@, Head(raw).log)])
    ELSE LET repo == Head(raw).yield[1]
         IN  IF is_repo_excluded(rinc, repo)
             THEN get_repositories_from(Tail(raw), rinc, seen,
                    [acc EXCEPT !.log = Append(@,
                        LogEntry("INFO", "excluded by config", repo.nameWithOwner))])
             ELSE IF repo.id \in seen
             THEN get_repositories_from(Tail(raw), rinc, seen,
                    [acc EXCEPT !.log = Append(@,
                        LogEntry("INFO", "fetched more than once", repo.nameWithOwner))])
             ELSE get_repositories_from(Tail(raw), rinc, seen \cup {repo.id},
                    [acc EXCEPT !.yielded = Append(@, Head(raw).yield)])

get_repositories(names, viewer, cfg) ==
    get_repositories_from(p_get_repositories(names, viewer, cfg), inclusions(cfg), {},
                          [yielded |-> <<>>, log |-> <<>>])

\* The configurations the runs of Spec are made under.
RunConfigs ==
    {Configuration(ReposConfig(Affiliation, <<>>, <<>>), <<>>),
     Configuration(ReposConfig(Affiliation, <<RepoSpec("o2", Null)>>, <<>>), <<>>),
     Configuration(ReposConfig(Affiliation, <<RepoSpec("o2", 0)>>, <<RepoSpec("o1", Null)>>),
                   <<>>),
     Configuration(ReposConfig(<<>>, <<RepoSpec("o3", Null), RepoSpec("o2", 0)>>, <<>>),
                   <<RepoSpec("o1", 1)>>),
     Configuration(ReposConfig(<<>>, <<>>, <<>>), <<>>)}

(***************************************************************************)
(* Values of the run's variables while no run is in progress.              *)
(***************************************************************************)
NoManager ==
    [repo |-> Repository("", <<"", 0>>), types |-> <<>>, cursors |-> <<>>,
     has_next_page |-> FALSE]

NoState == [old_state |-> <<>>, new_state |-> <<>>, state_events |-> <<>>]

NoPrefs == ActivityPrefs({}, TRUE, TRUE, FALSE, FALSE)

NoConfig == Configuration(ReposConfig(<<>>, <<>>, <<>>), <<>>)

NoSession ==
    /\ manager = NoManager
    /\ collected = <<>>
    /\ query = [connections |-> <<>>, variables |-> <<>>]
    /\ response = [data |-> [node |-> <<>>]]
    /\ cursors_before = <<>>
    /\ yielded = <<>>
    /\ cursors_in = <<>>
    /\ trips = 0

NoRun ==
    /\ state = NoState
    /\ events = <<>>
    /\ repositories = <<>>
    /\ activity = NoPrefs
    /\ config = NoConfig
    /\ log = <<>>
    /\ loaded = [exists |-> FALSE, snapshot |-> <<>>]
    /\ saves = 0
    /\ calls = <<>>

ResetSession ==
    /\ manager' = NoManager
    /\ collected' = <<>>
    /\ query' = [connections |-> <<>>, variables |-> <<>>]
    /\ response' = [data |-> [node |-> <<>>]]
    /\ cursors_before' = <<>>
    /\ yielded' = <<>>
    /\ cursors_in' = <<>>
    /\ trips' = 0

ResetRun ==
    /\ state' = NoState
    /\ events' = <<>>
    /\ repositories' = <<>>
    /\ activity' = NoPrefs
    /\ config' = NoConfig
    /\ log' = <<>>
    /\ loaded' = [exists |-> FALSE, snapshot |-> <<>>]
    /\ saves' = 0
    /\ calls' = <<>>

TotalItems ==
    Cardinality({x \in ActiveFeeds \X (1..MaxItems) :
                    x[2] <= Len(upstream[x[1][1]][x[1][2]])})

\* The time of a run: later than the creation of every item upstream.
Now == TotalItems + 1

(***************************************************************************)
(* The world between two runs: somebody opens an issue, publishes a        *)
(* release or pushes a tag; a repository is renamed.  The n-th item of a   *)
(* feed is created at time n.                                              *)
(***************************************************************************)
UpstreamActivity(r, it) ==
    /\ pc = "idle"
    /\ <<r, it>> \in ActiveFeeds
    /\ TotalItems < MaxItems
    /\ upstream' = [upstream EXCEPT
                       ![r][it] = Append(@, NewNode(it, Len(@) + 1, Len(@) + 1))]
    /\ owed' = IF /\ r \in DOMAIN State_from_file(state_file).old_state
                  /\ it \in DOMAIN State_from_file(state_file).old_state[r].cursors
                  /\ from_node(it, Repository(r, repo_names[r]),
                               NewNode(it, Len(upstream[r][it]) + 1, 0))
                        # BogusEventError
               THEN owed \cup {<<r, it, Len(upstream[r][it]) + 1>>}
               ELSE owed
    /\ UNCHANGED <<pc, sessionVars, runVars, transport, aborted, first>>

Rename(r) ==
    /\ pc = "idle"
    /\ r \in Renamed
    /\ repo_names[r][2] < MaxRenames
    /\ repo_names' = [repo_names EXCEPT ![r] = <<@[1], @[2] + 1>>]
    /\ UNCHANGED <<upstream, viewer_repos, pc, sessionVars, transport, aborted, owed, first, state_file, state, events,
                   repositories, activity, config, log, loaded, saves, calls>>

(***************************************************************************)
(* main, up to the call of get_new_activity: the state file is loaded and  *)
(* the repositories are enumerated under this run's configuration.         *)
(***************************************************************************)
StartRun ==
    /\ pc = "idle"
    /\ state' = State_from_file(state_file)
    /\ loaded' = state_file
    /\ \E cfg \in RunConfigs :
            LET got == get_repositories(repo_names, viewer_repos, cfg)
            IN  /\ config' = cfg
                /\ repositories' = got.yielded
                /\ log' = got.log
    /\ events' = <<>>
    /\ saves' = 0
    /\ calls' = <<>>
    /\ pc' = "loop"
    /\ UNCHANGED <<upstream, repo_names, viewer_repos, state_file, activity, sessionVars, transport, aborted, owed, first>>

(***************************************************************************)
(* get_new_activity, the head of the loop: the next repository's           *)
(* preferences are resolved; without an active kind it is skipped, else    *)
(* its sync call begins from the cursors of the old state.                 *)
(***************************************************************************)
\* A faulty variant: a repository without an active kind is committed with
\* the cursors it had.
NextRepository_commits_skipped ==
    /\ pc = "loop"
    /\ repositories # <<>>
    /\ repositories' = Tail(repositories)
    /\ \E prefs \in PrefConfigs :
        LET repo == Head(repositories)[1]
            types == get_activity_types(prefs)
        IN  IF types = <<>>
            THEN /\ pc' = "loop"
                 /\ log' = Append(log, LogEntry("INFO", "No tracked activity configured",
                                                repo.nameWithOwner))
                 /\ state' = set_cursors(state, repo, get_cursors(state, repo), Now)
                 /\ UNCHANGED <<activity, sessionVars>>
            ELSE /\ pc' = "session"
                 /\ activity' = prefs
                 /\ UNCHANGED <<log, state>>
                 /\ get_new_repo_activity_begin(repo, types, get_cursors(state, repo))
    /\ UNCHANGED <<upstream, repo_names, viewer_repos, state_file, events, config, loaded,
                   saves, calls, transport, aborted, owed, first>>

NextRepository ==
    /\ pc = "loop"
    /\ repositories # <<>>
    /\ repositories' = Tail(repositories)
    /\ \E prefs \in PrefConfigs :
        LET repo == Head(repositories)[1]
            types == get_activity_types(prefs)
        IN  IF types = <<>>
            THEN /\ pc' = "loop"
                 /\ log' = Append(log, LogEntry("INFO", "No tracked activity configured",
                                                repo.nameWithOwner))
                 /\ UNCHANGED <<activity, sessionVars>>
            ELSE /\ pc' = "session"
                 /\ activity' = prefs
                 /\ UNCHANGED log
                 /\ get_new_repo_activity_begin(repo, types, get_cursors(state, repo))
    /\ UNCHANGED <<upstream, repo_names, viewer_repos, state_file, state, events, config, loaded,
                   saves, calls, transport, aborted, owed, first>>

RoundTrip ==
    /\ do_managed_query_step
    /\ UNCHANGED <<upstream, pc, runVars, transport, aborted, owed, first>>

\* Client.query raises: a fatal API error, or the retries are exhausted.
QueryFails ==
    /\ pc = "session"
    /\ manager.has_next_page
    /\ pc' = "raised"
    /\ UNCHANGED <<upstream, sessionVars, runVars, transport, aborted, owed, first>>

\* A faulty variant: the state is saved after every repository.
ProcessRepository_saves ==
    /\ get_new_repo_activity_returns
    /\ events' = events \o filter_events(activity, collected)
    /\ state' = set_cursors(state, manager.repo, manager.cursors, Now)
    /\ calls' = Put(calls, manager.repo.id,
                    [types |-> manager.types,
                     cursors_in |-> cursors_in,
                     events |-> collected,
                     cursors_out |-> manager.cursors,
                     prefs |-> activity,
                     new_events |-> new_events_stages(activity, collected)])
    /\ state_file' = save(state')
    /\ saves' = saves + 1
    /\ pc' = "loop"
    /\ UNCHANGED <<upstream, repo_names, viewer_repos, repositories, activity,
                   config, log, loaded, sessionVars, transport, aborted, owed, first>>

\* A faulty variant: when a filter dropped an event, the cursors the sync call
\* started from are committed.
ProcessRepository_rewinds ==
    /\ get_new_repo_activity_returns
    /\ events' = events \o filter_events(activity, collected)
    /\ state' = set_cursors(state, manager.repo,
                            IF Len(filter_events(activity, collected)) < Len(collected)
                            THEN cursors_in ELSE manager.cursors,
                            Now)
    /\ calls' = Put(calls, manager.repo.id,
                    [types |-> manager.types,
                     cursors_in |-> cursors_in,
                     events |-> collected,
                     cursors_out |-> manager.cursors,
                     prefs |-> activity,
                     new_events |-> new_events_stages(activity, collected)])
    /\ pc' = "loop"
    /\ UNCHANGED <<upstream, repo_names, viewer_repos, state_file, repositories, activity,
                   config, log, loaded, saves, sessionVars, transport, aborted, owed, first>>

(***************************************************************************)
(* get_new_activity, the rest of the loop body: the sync call has          *)
(* returned, its events are filtered and added, its cursors committed.     *)
(***************************************************************************)
ProcessRepository ==
    /\ get_new_repo_activity_returns
    /\ events' = events \o filter_events(activity, collected)
    /\ state' = set_cursors(state, manager.repo, manager.cursors, Now)
    /\ calls' = Put(calls, manager.repo.id,
                    [types |-> manager.types,
                     cursors_in |-> cursors_in,
                     events |-> collected,
                     cursors_out |-> manager.cursors,
                     prefs |-> activity,
                     new_events |-> new_events_stages(activity, collected)])
    /\ pc' = "loop"
    /\ UNCHANGED <<upstream, repo_names, viewer_repos, state_file, repositories, activity,
                   config, log, loaded, saves, sessionVars, transport, aborted, owed, first>>

\* get_new_activity, after the loop: the lifecycle events, the sort, the return.
ReturnActivity ==
    /\ pc = "loop"
    /\ repositories = <<>>
    /\ events' = sort_by_timestamp(events \o get_state_events(state, Now))
    /\ pc' = "report"
    /\ UNCHANGED <<upstream, repo_names, viewer_repos, state_file, state, repositories,
                   activity, config, log, loaded, saves, calls, sessionVars, transport, aborted, owed, first>>

(***************************************************************************)
(* main, after get_new_activity: the events are printed or sent, then the  *)
(* state is saved unless --no-save was given.                              *)
(***************************************************************************)
\* A faulty variant: the state is saved whatever --save/--no-save says.
Report_ignores_flag(do_save) ==
    /\ pc = "report"
    /\ state_file' = save(state)
    /\ saves' = saves + 1
    /\ pc' = "done"
    /\ UNCHANGED <<upstream, repo_names, viewer_repos, state, events, repositories,
                   activity, config, log, loaded, calls, sessionVars, transport, aborted, owed, first>>

Report(do_save) ==
    /\ pc = "report"
    /\ IF do_save
       THEN /\ state_file' = save(state)
            /\ saves' = saves + 1
       ELSE UNCHANGED <<state_file, saves>>
    /\ pc' = "done"
    /\ UNCHANGED <<upstream, repo_names, viewer_repos, state, events, repositories,
                   activity, config, log, loaded, calls, sessionVars, transport, aborted, owed, first>>

\* A faulty variant: the state is saved although sending raised.
SendFails_saves ==
    /\ pc = "report"
    /\ events # <<>>
    /\ state_file' = save(state)
    /\ pc' = "raised"
    /\ UNCHANGED <<upstream, sessionVars, repo_names, viewer_repos, state, events, repositories,
                   activity, config, log, loaded, saves, calls, transport, aborted, owed, first>>

\* A faulty variant: the e-mail is composed and sent whether or not there are
\* events, and that raises.
SendFails_without_events ==
    /\ pc = "report"
    /\ pc' = "raised"
    /\ UNCHANGED <<upstream, sessionVars, runVars, transport, aborted, owed, first>>

\* Composing or sending the e-mail raises.
SendFails ==
    /\ pc = "report"
    /\ events # <<>>
    /\ pc' = "raised"
    /\ UNCHANGED <<upstream, sessionVars, runVars, transport, aborted, owed, first>>

\* What identifies the item of an activity event: repository, kind, number or name.
ItemOf(ev) ==
    <<ev.repo.id, ev.event_type,
      CASE ev.event_type = "release" -> ev.tagName
        [] ev.event_type = "tag" -> ev.name
        [] OTHER -> ev.number>>

\* The items of the events this run's sync calls have returned.
ItemsReturned ==
    UNION {{ItemOf(calls[r].events[i]) : i \in 1..Len(calls[r].events)} : r \in DOMAIN calls}

\* The state file holds a cursor at or after an item.
Reached(file, x) ==
    /\ x[1] \in DOMAIN State_from_file(file).old_state
    /\ x[2] \in DOMAIN State_from_file(file).old_state[x[1]].cursors
    /\ State_from_file(file).old_state[x[1]].cursors[x[2]] >= x[3]

\* The process ends; nothing but the state file outlives it.
Exit ==
    /\ pc \in {"done", "raised", "dumped"}
    /\ pc' = "idle"
    /\ ResetSession
    /\ ResetRun
    /\ aborted' = IF pc = "raised" THEN ItemsReturned ELSE {}
    /\ owed' = {x \in owed : ~Reached(state_file, x)}
    /\ UNCHANGED <<upstream, repo_names, viewer_repos, state_file, transport, first>>

NoFirst == [done |-> FALSE, began |-> <<>>, events |-> <<>>, cursors |-> <<>>]

Init ==
    /\ upstream = [r \in RepoIds |-> [it \in Kinds |-> <<>>]]
    /\ repo_names = [r \in RepoIds |-> <<IF r = "r1" THEN "o1" ELSE "o2", 0>>]
    /\ viewer_repos = [r \in {"r1"} |-> "OWNER"]
    /\ state_file = [exists |-> FALSE, snapshot |-> <<>>]
    /\ pc = "idle"
    /\ NoSession
    /\ NoRun
    /\ aborted = {}
    /\ transport = NoTransport
    /\ owed = {}
    /\ first = NoFirst

Next ==
    \/ \E r \in RepoIds, it \in Kinds : UpstreamActivity(r, it)
    \/ \E r \in RepoIds : Rename(r)
    \/ StartRun
    \/ NextRepository
    \/ RoundTrip
    \/ QueryFails
    \/ ProcessRepository
    \/ ReturnActivity
    \/ \E do_save \in BOOLEAN : Report(do_save)
    \/ SendFails
    \/ Exit

Spec == Init /\ [][Next]_vars

(***************************************************************************)
(* SpecSession: sync calls for repository r1 against a fixed upstream.     *)
(* The kinds asked for, the length of each one's feed and the cursor map   *)
(* the call starts from (a kind missing, stored as None, or stored at any  *)
(* position of its feed) range over everything within the bounds.  When    *)
(* the call has returned, a second call may follow from the cursors the    *)
(* first one returned.                                                     *)
(***************************************************************************)
TypesOf(S) == SelectSeq(ActivityType, LAMBDA it : it \in S)

Feed(it, n) == [i \in 1..n |-> NewNode(it, i, i)]

CursorMaps(S, up) ==
    UNION {{c \in [D -> {Null} \cup (1..MaxHist)] :
               \A it \in D : c[it] <= Len(up[it])} : D \in SUBSET S}

SessInit ==
    /\ \E S \in SUBSET SessionKinds :
        /\ S # {}
        /\ Cardinality(S) <= MaxTypes
        /\ \E n \in [S -> 0..MaxHist] :
            /\ upstream = [r \in RepoIds |-> [it \in Kinds |->
                              IF r = "r1" /\ it \in S THEN Feed(it, n[it]) ELSE <<>>]]
            /\ \E cursors \in CursorMaps(S, upstream["r1"]) :
                /\ manager = ActivityQuery(Repository("r1", <<"o1", 0>>), TypesOf(S), cursors)
                /\ cursors_before = cursors
                /\ cursors_in = cursors
    /\ collected = <<>>
    /\ query = [connections |-> <<>>, variables |-> <<>>]
    /\ response = [data |-> [node |-> <<>>]]
    /\ yielded = <<>>
    /\ trips = 0
    /\ pc = "session"
    /\ repo_names = [r \in RepoIds |-> <<IF r = "r1" THEN "o1" ELSE "o2", 0>>]
    /\ viewer_repos = [r \in {"r1"} |-> "OWNER"]
    /\ state_file = [exists |-> FALSE, snapshot |-> <<>>]
    /\ NoRun
    /\ aborted = {}
    /\ transport = NoTransport
    /\ owed = {}
    /\ first = NoFirst

SessRoundTrip ==
    /\ do_managed_query_step
    /\ UNCHANGED <<upstream, pc, runVars, transport, aborted, owed, first>>

SessReturn ==
    /\ get_new_repo_activity_returns
    /\ pc' = "returned"
    /\ UNCHANGED <<upstream, sessionVars, runVars, transport, aborted, owed, first>>

\* The same call again, from the cursors the first call returned.
SyncAgain ==
    /\ pc = "returned"
    /\ ~first.done
    /\ first' = [done |-> TRUE, began |-> cursors_in, events |-> collected,
                 cursors |-> manager.cursors]
    /\ get_new_repo_activity_begin(manager.repo, manager.types, manager.cursors)
    /\ pc' = "session"
    /\ UNCHANGED <<upstream, runVars, transport, aborted, owed>>

SessNext ==
    \/ SessRoundTrip
    \/ SessReturn
    \/ SyncAgain

SpecSession == SessInit /\ [][SessNext]_vars

(***************************************************************************)
(* SpecSessionLive: SpecSession with the driver's loop running: while      *)
(* manager.has_next_page holds, the next round trip is made.  The fairness *)
(* condition is stated on the loop's guard and the count of its trips: a   *)
(* step of SessNext that satisfies LoopRuns is a step of SessRoundTrip,    *)
(* and both are enabled exactly when the guard holds.                      *)
(***************************************************************************)
LoopRuns ==
    /\ pc = "session"
    /\ manager.has_next_page
    /\ trips' = trips + 1

SpecSessionLive == SessInit /\ [][SessNext]_vars /\ WF_trips(LoopRuns)

(***************************************************************************)
(* SpecEnum: runs of main in the dump-repos mode, which loads the state,   *)
(* enumerates the repositories and returns.  The remote service holds one  *)
(* or two repositories, under one owner or two, the viewer affiliated with *)
(* any of them; the configuration ranges over every list of at most        *)
(* MaxRules specs as repos.include and as repos.exclude, with one          *)
(* per-repository preference table or none.                                *)
(***************************************************************************)
EnumRemotes ==
    {[r \in RepoIds |-> <<"o1", IF r = "r1" THEN 0 ELSE 1>>],
     [r \in RepoIds |-> <<IF r = "r1" THEN "o1" ELSE "o2", 0>>],
     [r \in {"r1"} |-> <<"o1", 0>>]}

RuleSpecs ==
    {RepoSpec(o, Null) : o \in Range(OwnerOrder)}
    \cup {RepoSpec("o1", 0), RepoSpec("o1", 1), RepoSpec("o2", 0)}

RECURSIVE SeqsUpTo(_, _)
SeqsUpTo(S, n) ==
    IF n = 0
    THEN {<<>>}
    ELSE SeqsUpTo(S, n - 1)
         \cup {Append(q, x) : q \in {p \in SeqsUpTo(S, n - 1) : Len(p) = n - 1}, x \in S}

EnumConfigs ==
    {Configuration(ReposConfig(Affiliation, include, exclude), preffed_repos) :
        include \in SeqsUpTo(RuleSpecs, MaxRules),
        exclude \in SeqsUpTo(RuleSpecs, MaxRules),
        preffed_repos \in {<<>>, <<RepoSpec("o1", 1)>>}}

EnumInit ==
    /\ \E names \in EnumRemotes, affiliated \in SUBSET RepoIds :
        /\ affiliated \subseteq DOMAIN names
        /\ repo_names = names
        /\ viewer_repos = [r \in affiliated |-> "OWNER"]
    /\ upstream = [r \in RepoIds |-> [it \in Kinds |-> <<>>]]
    /\ state_file = [exists |-> FALSE, snapshot |-> <<>>]
    /\ pc = "idle"
    /\ NoSession
    /\ NoRun
    /\ aborted = {}
    /\ transport = NoTransport
    /\ owed = {}
    /\ first = NoFirst

\* A faulty variant: the dump-repos mode saves the state it loaded.
DumpRepos_saves ==
    /\ pc = "idle"
    /\ state' = State_from_file(state_file)
    /\ loaded' = state_file
    /\ \E cfg \in EnumConfigs :
            LET got == get_repositories(repo_names, viewer_repos, cfg)
            IN  /\ config' = cfg
                /\ repositories' = got.yielded
                /\ log' = got.log
    /\ state_file' = save(State_from_file(state_file))
    /\ pc' = "dumped"
    /\ UNCHANGED <<upstream, repo_names, viewer_repos, events, activity,
                   saves, calls, sessionVars, transport, aborted, owed, first>>

\* main in the dump-repos mode: dump_repo_prefs runs get_repositories to its end.
DumpRepos ==
    /\ pc = "idle"
    /\ state' = State_from_file(state_file)
    /\ loaded' = state_file
    /\ \E cfg \in EnumConfigs :
            LET got == get_repositories(repo_names, viewer_repos, cfg)
            IN  /\ config' = cfg
                /\ repositories' = got.yielded
                /\ log' = got.log
    /\ pc' = "dumped"
    /\ UNCHANGED <<upstream, repo_names, viewer_repos, state_file, events, activity,
                   saves, calls, sessionVars, transport, aborted, owed, first>>

EnumNext ==
    \/ DumpRepos
    \/ Exit

SpecEnum == EnumInit /\ [][EnumNext]_vars

(***************************************************************************)
(* SpecActivity: get_new_activity over a fixed upstream, once and then     *)
(* once more from the same state file.  Repository r1 has MaxFeed releases *)
(* and as many tags, release n and tag n under the same name, and one      *)
(* star; r2 has two issues.  Either the n-th item of a feed was created at *)
(* time n, or every item was created at time 1.  The state file holds both *)
(* repositories with every cursor None, or both with r1 under another name *)
(* and without a star cursor, or r2 alone.  Enumeration yields r1 then r2, *)
(* r2 then r1, or r1 alone.  The preferences resolved for a repository     *)
(* range over the four filter flags, and for r1 over which of releases and *)
(* tags are tracked.                                                       *)
(***************************************************************************)
FeedAt(it, n, clock) ==
    [i \in 1..n |-> NewNode(it, i, IF clock = "burst" THEN 1 ELSE i)]

ActUpstream(clock) ==
    [r \in RepoIds |-> [it \in Kinds |->
        CASE r = "r1" /\ it \in {"release", "tag"} -> FeedAt(it, MaxFeed, clock)
          [] r = "r1" /\ it = "star" -> FeedAt(it, 1, clock)
          [] r = "r2" /\ it = "issue" -> FeedAt(it, 2, clock)
          [] OTHER -> <<>>]]

ActFiles ==
    {[exists |-> TRUE,
      snapshot |->
        [r \in RepoIds |->
            RepoState(Repository(r, <<IF r = "r1" THEN "o1" ELSE "o2", 0>>),
                      IF r = "r1"
                      THEN [it \in {"release", "tag", "star"} |-> Null]
                      ELSE [it \in {"issue"} |-> Null])]],
     [exists |-> TRUE,
      snapshot |->
        [r \in RepoIds |->
            IF r = "r1"
            THEN RepoState(Repository(r, <<"o1", 1>>), [it \in {"release", "tag"} |-> 1])
            ELSE RepoState(Repository(r, <<"o2", 0>>), [it \in {"issue"} |-> Null])]],
     [exists |-> TRUE,
      snapshot |->
        [r \in {"r2"} |->
            RepoState(Repository(r, <<"o2", 0>>), [it \in {"issue"} |-> 1])]]}

\* The viewer's repositories and the configuration, for each enumeration.
ActConfigs ==
    {<<{"r1"}, Configuration(ReposConfig(Affiliation, <<RepoSpec("o2", Null)>>, <<>>), <<>>)>>,
     <<{"r2"}, Configuration(ReposConfig(Affiliation, <<RepoSpec("o1", 0)>>, <<>>), <<>>)>>,
     <<{"r1"}, Configuration(ReposConfig(Affiliation, <<>>, <<>>), <<>>)>>}

\* What Configuration.get_repo_activity_prefs may resolve for a repository.
ActPrefs(repo) ==
    {ActivityPrefs(kinds, prereleases, drafts, released_tags, my_activity) :
        kinds \in IF repo.id = "r1"
                  THEN {{"release", "tag", "star"}, {"release", "star"}, {"tag", "star"}}
                  ELSE {{"issue"}},
        prereleases \in BOOLEAN, drafts \in BOOLEAN,
        released_tags \in BOOLEAN, my_activity \in BOOLEAN}

NoFirstRun ==
    [done |-> FALSE, types |-> <<>>, cursors |-> <<>>, new_state |-> <<>>, reported |-> 0]

ActInit ==
    /\ \E clock \in {"spread", "burst"} : upstream = ActUpstream(clock)
    /\ repo_names = [r \in RepoIds |-> <<IF r = "r1" THEN "o1" ELSE "o2", 0>>]
    /\ state_file \in ActFiles
    /\ \E vc \in ActConfigs :
        LET got == get_repositories(repo_names, [r \in vc[1] |-> "OWNER"], vc[2])
        IN  /\ viewer_repos = [r \in vc[1] |-> "OWNER"]
            /\ config = vc[2]
            /\ repositories = got.yielded
            /\ log = got.log
    /\ state = State_from_file(state_file)
    /\ loaded = state_file
    /\ events = <<>>
    /\ activity = NoPrefs
    /\ saves = 0
    /\ calls = <<>>
    /\ pc = "loop"
    /\ NoSession
    /\ aborted = {}
    /\ transport = NoTransport
    /\ owed = {}
    /\ first = NoFirstRun

\* get_new_activity, the head of the loop, with the preferences of SpecActivity.
ActNextRepository ==
    /\ pc = "loop"
    /\ repositories # <<>>
    /\ repositories' = Tail(repositories)
    /\ \E prefs \in ActPrefs(Head(repositories)[1]) :
        LET repo == Head(repositories)[1]
            types == get_activity_types(prefs)
        IN  IF types = <<>>
            THEN /\ pc' = "loop"
                 /\ log' = Append(log, LogEntry("INFO", "No tracked activity configured",
                                                repo.nameWithOwner))
                 /\ UNCHANGED <<activity, sessionVars>>
            ELSE /\ pc' = "session"
                 /\ activity' = prefs
                 /\ UNCHANGED log
                 /\ get_new_repo_activity_begin(repo, types, get_cursors(state, repo))
    /\ UNCHANGED <<upstream, repo_names, viewer_repos, state_file, state, events, config, loaded, saves, calls, transport, aborted, owed, first>>

\* A second run of get_new_activity: the state file, the upstream and the
\* configuration's repositories are those of the first, which did not save.
RunAgain ==
    /\ pc = "report"
    /\ ~first.done
    /\ first' = [done |-> TRUE,
                 types |-> [r \in DOMAIN calls |-> calls[r].types],
                 cursors |-> [r \in DOMAIN calls |-> calls[r].cursors_out],
                 new_state |-> state.new_state,
                 reported |-> Len(events)]
    /\ state' = State_from_file(state_file)
    /\ loaded' = state_file
    /\ LET got == get_repositories(repo_names, viewer_repos, config)
       IN  /\ repositories' = got.yielded
           /\ log' = got.log
    /\ events' = <<>>
    /\ saves' = 0
    /\ calls' = <<>>
    /\ pc' = "loop"
    /\ UNCHANGED <<upstream, repo_names, viewer_repos, state_file, activity, config,
                   sessionVars, transport, aborted, owed>>

ActNext ==
    \/ ActNextRepository
    \/ RoundTrip
    \/ ProcessRepository
    \/ ReturnActivity
    \/ RunAgain
    \/ \E do_save \in BOOLEAN : Report(do_save)

SpecActivity == ActInit /\ [][ActNext]_vars

(***************************************************************************)
(* SpecCollision: get_new_activity over two repositories whose releases    *)
(* carry the same tag names.  Both have MaxFeed releases, release n named  *)
(* n; r1 has a tag for each, all pushed by somebody else than the viewer.  *)
(* The state file holds both repositories; r1's release cursor is None or  *)
(* stands after release 1, which an earlier run has then reported; its tag *)
(* cursor is None.  For r1, releases and tags are tracked under any        *)
(* setting of the four filter flags; for r2, releases, unfiltered.         *)
(***************************************************************************)
ColTag(n) ==
    [name |-> n,
     target |-> [typename |-> "Commit", committedDate |-> n,
                 author |-> [user |-> UserNode(1)]]]

ColUpstream ==
    [r \in RepoIds |-> [it \in Kinds |->
        CASE it = "release" -> FeedAt(it, MaxFeed, "spread")
          [] r = "r1" /\ it = "tag" -> [n \in 1..MaxFeed |-> ColTag(n)]
          [] OTHER -> <<>>]]

ColFiles ==
    {[exists |-> TRUE,
      snapshot |->
        [r \in RepoIds |->
            RepoState(Repository(r, <<IF r = "r1" THEN "o1" ELSE "o2", 0>>),
                      IF r = "r1"
                      THEN [it \in {"release", "tag"} |->
                                IF it = "release" THEN cursor ELSE Null]
                      ELSE [it \in {"release"} |-> Null])]] :
        cursor \in {Null, 1}}

ColPrefs(repo) ==
    IF repo.id = "r1"
    THEN {ActivityPrefs({"release", "tag"}, prereleases, drafts, released_tags, my_activity) :
            prereleases \in BOOLEAN, drafts \in BOOLEAN,
            released_tags \in BOOLEAN, my_activity \in BOOLEAN}
    ELSE {ActivityPrefs({"release"}, TRUE, TRUE, FALSE, TRUE)}

ColInit ==
    /\ upstream = ColUpstream
    /\ repo_names = [r \in RepoIds |-> <<IF r = "r1" THEN "o1" ELSE "o2", 0>>]
    /\ state_file \in ColFiles
    /\ viewer_repos = [r \in {"r1"} |-> "OWNER"]
    /\ config = Configuration(ReposConfig(Affiliation, <<RepoSpec("o2", Null)>>, <<>>), <<>>)
    /\ repositories = get_repositories(repo_names, viewer_repos, config).yielded
    /\ log = get_repositories(repo_names, viewer_repos, config).log
    /\ state = State_from_file(state_file)
    /\ loaded = state_file
    /\ events = <<>>
    /\ activity = NoPrefs
    /\ saves = 0
    /\ calls = <<>>
    /\ pc = "loop"
    /\ NoSession
    /\ transport = NoTransport
    /\ aborted = {}
    /\ owed = {}
    /\ first = NoFirstRun

\* get_new_activity, the head of the loop, with the preferences of SpecCollision.
ColNextRepository ==
    /\ pc = "loop"
    /\ repositories # <<>>
    /\ repositories' = Tail(repositories)
    /\ \E prefs \in ColPrefs(Head(repositories)[1]) :
        LET repo == Head(repositories)[1]
            types == get_activity_types(prefs)
        IN  IF types = <<>>
            THEN /\ pc' = "loop"
                 /\ log' = Append(log, LogEntry("INFO", "No tracked activity configured",
                                                repo.nameWithOwner))
                 /\ UNCHANGED <<activity, sessionVars>>
            ELSE /\ pc' = "session"
                 /\ activity' = prefs
                 /\ UNCHANGED log
                 /\ get_new_repo_activity_begin(repo, types, get_cursors(state, repo))
    /\ UNCHANGED <<upstream, repo_names, viewer_repos, state_file, state, events, config, loaded, saves, calls, transport, aborted, owed, first>>

ColNext ==
    \/ ColNextRepository
    \/ RoundTrip
    \/ ProcessRepository
    \/ ReturnActivity

SpecCollision == ColInit /\ [][ColNext]_vars

(***************************************************************************)
(* SpecDump: runs of main in the dump-repos mode over a state file that    *)
(* holds a snapshot and an upstream with activity the snapshot's cursors   *)
(* have not reached.  The viewer owns r1; the configurations are those of  *)
(* SpecEnum.                                                               *)
(***************************************************************************)
DumpInit ==
    /\ upstream = ActUpstream("spread")
    /\ repo_names = [r \in RepoIds |-> <<IF r = "r1" THEN "o1" ELSE "o2", 0>>]
    /\ viewer_repos = [r \in {"r1"} |-> "OWNER"]
    /\ state_file \in ActFiles
    /\ pc = "idle"
    /\ NoSession
    /\ NoRun
    /\ transport = NoTransport
    /\ aborted = {}
    /\ owed = {}
    /\ first = NoFirst

DumpNext ==
    \/ DumpRepos
    \/ Exit

SpecDump == DumpInit /\ [][DumpNext]_vars

(***************************************************************************)
(* Client.query: one POST, then the response is classified.  A JSON value  *)
(* is an object (a record of its members) or a string.  An answer of the   *)
(* server is a network-level failure, under which the POST raises, or a    *)
(* response with a status and a body; the body is what r.json() makes of   *)
(* it, or Unparseable, for which r.json() raises ValueError.               *)
(***************************************************************************)
JsonObject(members) == [object |-> members]

JsonString(text) == [string |-> text]

Unparseable == [unparseable |-> TRUE]

Response(status_code, body) == [status_code |-> status_code, body |-> body]

ConnectionError == [error |-> "ConnectionError"]

\* requests.Response.ok: raise_for_status would not raise.
ok(r) == r.status_code < 400

\* data["errors"][0]["type"] and data["errors"][0]["message"]: what the
\* subscription evaluates to, or the exception it raises.
Subscript(value, key) ==
    IF "object" \notin DOMAIN value
    THEN [raises |-> "TypeError"]
    ELSE IF key \notin DOMAIN value.object
    THEN [raises |-> "KeyError"]
    ELSE [returns |-> value.object[key]]

\* Client.query, after the n-th POST has returned or raised: the requests
\* made, the delays slept and the outcome.
classify(answer, n) ==
    IF "error" \in DOMAIN answer
    THEN [requests |-> n, slept |-> <<>>, outcome |-> [raises |-> answer.error]]
    ELSE IF ~ok(answer)
    THEN [requests |-> n, slept |-> <<>>, outcome |-> [raises |-> "APIException"]]
    ELSE IF answer.body = Unparseable
    THEN [requests |-> n, slept |-> <<>>, outcome |-> [raises |-> "ValueError"]]
    ELSE IF "errors" \in DOMAIN answer.body.object /\ answer.body.object["errors"] # <<>>
    THEN LET first_error == answer.body.object["errors"][1]
             type == Subscript(first_error, "type")
             message == Subscript(first_error, "message")
         IN  [requests |-> n, slept |-> <<>>,
              outcome |->
                IF "raises" \in DOMAIN type
                THEN [raises |-> "APIException"]
                ELSE IF type.returns # "NOT_FOUND"
                THEN [raises |-> "APIException"]
                ELSE IF "raises" \in DOMAIN message
                THEN [raises |-> "APIException"]
                ELSE [raises |-> "NotFoundError"]]
    ELSE [requests |-> n, slept |-> <<>>, outcome |-> [returns |-> answer.body]]

\* A faulty variant: a response that is not ok is asked for once more.
Client_query_again(answers) ==
    IF Len(answers) > 1 /\ "error" \notin DOMAIN answers[1] /\ ~ok(answers[1])
    THEN classify(answers[2], 2)
    ELSE classify(answers[1], 1)

\* Client.query against a server that answers its requests with answers, in
\* order.
Client_query(answers) == classify(answers[1], 1)

(***************************************************************************)
(* SpecTransport: one call of Client.query against a server that has up to *)
(* MaxAnswers answers ready.  The first is a network-level failure, a      *)
(* status that is not ok, or a 200 whose body cannot be parsed, holds      *)
(* data, or holds an errors array of up to MaxErrors entries; the later    *)
(* ones are a network-level failure, a 503 or a 200 with data.             *)
(***************************************************************************)
ErrorEntries ==
    {JsonObject([type |-> "NOT_FOUND", message |-> "Could not resolve"]),
     JsonObject([type |-> "NOT_FOUND"]),
     JsonObject([type |-> "FORBIDDEN", message |-> "Resource not accessible"]),
     JsonObject([message |-> "Something went wrong"]),
     JsonString("Something went wrong")}

Bodies ==
    {Unparseable, JsonObject([data |-> "data"])}
    \cup {JsonObject([data |-> "data", errors |-> errors]) :
             errors \in SeqsUpTo(ErrorEntries, MaxErrors)}

\* The API answers a POST with 200 or with a client or server error status.
Answers ==
    {ConnectionError}
    \cup {Response(status_code, Unparseable) :
             status_code \in {401, 404, 500, 502, 503, 504}}
    \cup {Response(200, body) : body \in Bodies}

\* What the server has ready after its first answer.
LaterAnswers ==
    {ConnectionError, Response(503, Unparseable),
     Response(200, JsonObject([data |-> "data"]))}

TransportInit ==
    /\ \E answer \in Answers, later \in SeqsUpTo(LaterAnswers, MaxAnswers - 1) :
        /\ transport = [answers |-> <<answer>> \o later, requests |-> 0, slept |-> <<>>,
                        outcome |-> [pending |-> TRUE]]
    /\ pc = "request"
    /\ upstream = [r \in RepoIds |-> [it \in Kinds |-> <<>>]]
    /\ repo_names = [r \in RepoIds |-> <<IF r = "r1" THEN "o1" ELSE "o2", 0>>]
    /\ viewer_repos = [r \in {"r1"} |-> "OWNER"]
    /\ state_file = [exists |-> FALSE, snapshot |-> <<>>]
    /\ NoSession
    /\ NoRun
    /\ aborted = {}
    /\ owed = {}
    /\ first = NoFirst

\* Client.query is called and returns or raises.
Query ==
    /\ pc = "request"
    /\ LET done == Client_query(transport.answers)
       IN  transport' = [transport EXCEPT !.requests = done.requests,
                                          !.slept = done.slept,
                                          !.outcome = done.outcome]
    /\ pc' = "answered"
    /\ UNCHANGED <<upstream, sessionVars, runVars, aborted, owed, first>>

TransportNext == Query

SpecTransport == TransportInit /\ [][TransportNext]_vars

(***************************************************************************)
(* SpecParse: one call of ActivityQuery.parse_response on a response to a  *)
(* query for the tags of r1, fetched forward.  The page holds up to        *)
(* MaxNodes nodes, named by their place in it; the target of each is a     *)
(* commit (with or without a date, with or without an author, who is the   *)
(* viewer, somebody else or nobody known), an annotated tag (with or       *)
(* without a tagger, whose date or user may be missing), or a blob.  The   *)
(* end-cursor is a string or None; more pages follow or not.               *)
(***************************************************************************)
TagTargets ==
    {[typename |-> "Commit", committedDate |-> 1, author |-> [user |-> UserNode(1)]],
     [typename |-> "Commit", committedDate |-> 2, author |-> [user |-> UserNode(2)]],
     [typename |-> "Commit", committedDate |-> 1, author |-> [user |-> NoneObject]],
     [typename |-> "Commit", committedDate |-> 1, author |-> NoneObject],
     [typename |-> "Commit", committedDate |-> Null, author |-> [user |-> UserNode(1)]],
     [typename |-> "Tag", tagger |-> [date |-> 1, user |-> UserNode(2)]],
     [typename |-> "Tag", tagger |-> [date |-> 2, user |-> NoneObject]],
     [typename |-> "Tag", tagger |-> [date |-> Null, user |-> UserNode(2)]],
     [typename |-> "Tag", tagger |-> NoneObject],
     [typename |-> "Blob"]}

TagPages ==
    UNION {{[i \in 1..n |-> [name |-> i, target |-> targets[i]]] :
               targets \in [1..n -> TagTargets]} : n \in 0..MaxNodes}

ParseInit ==
    /\ \E cursor \in {Null, 1} :
        /\ manager = ActivityQuery(Repository("r1", <<"o1", 0>>), <<"tag">>,
                                   [it \in {"tag"} |-> cursor])
        /\ cursors_before = manager.cursors
        /\ cursors_in = manager.cursors
    /\ \E nodes \in TagPages, endCursor \in {Null, 2}, hasNextPage \in BOOLEAN :
        response = [data |-> [node |-> [tags |->
                        [nodes |-> nodes,
                         pageInfo |-> [endCursor |-> endCursor,
                                       hasNextPage |-> hasNextPage]]]]]
    /\ query = make_query(manager)
    /\ collected = <<>>
    /\ yielded = <<>>
    /\ trips = 0
    /\ pc = "parse"
    /\ upstream = [r \in RepoIds |-> [it \in Kinds |-> <<>>]]
    /\ repo_names = [r \in RepoIds |-> <<IF r = "r1" THEN "o1" ELSE "o2", 0>>]
    /\ viewer_repos = [r \in {"r1"} |-> "OWNER"]
    /\ state_file = [exists |-> FALSE, snapshot |-> <<>>]
    /\ NoRun
    /\ transport = NoTransport
    /\ aborted = {}
    /\ owed = {}
    /\ first = NoFirst

\* The response is parsed.
Parse ==
    /\ pc = "parse"
    /\ LET parsed == parse_response(manager, response)
       IN  /\ manager' = parsed.manager
           /\ yielded' = parsed.events
           /\ collected' = collected \o parsed.events
    /\ trips' = trips + 1
    /\ pc' = "parsed"
    /\ UNCHANGED <<upstream, query, response, cursors_before, cursors_in, runVars,
                   transport, aborted, owed, first>>

ParseNext == Parse

SpecParse == ParseInit /\ [][ParseNext]_vars

(***************************************************************************)
(* Configuration.get_repo_activity_prefs.  A set of partial preferences is *)
(* a function on the fields it sets: a field outside its domain is None.   *)
(* The activity table of the configuration is the global partial           *)
(* preferences with two more members, affiliated and repo; an entry of     *)
(* repo has the member include besides the fields it sets.                 *)
(***************************************************************************)
DefaultPrefs == ActivityPrefs(Kinds, TRUE, TRUE, FALSE, FALSE)

\* ActivityPrefs.update: every field of self that prefs sets takes its value.
update(self, prefs) ==
    [field_name \in DOMAIN self |->
        IF field_name \in DOMAIN prefs THEN prefs[field_name] ELSE self[field_name]]

RepoSpecKey(owner, name) == RepoSpec(owner, name)

\* The lookup of one key in activity.repo and the update it leads to.
update_from_repo(prefs, cfg, key) ==
    IF key \in DOMAIN cfg.activity.repo
    THEN update(prefs, cfg.activity.repo[key])
    ELSE prefs

\* A faulty variant: owner/name is applied before owner/*.
get_repo_activity_prefs_name_first(cfg, repo, is_affiliated) ==
    LET global == update(DefaultPrefs, cfg.activity)
        affiliated == IF is_affiliated
                      THEN update(global, cfg.activity.affiliated)
                      ELSE global
    IN  update_from_repo(
            update_from_repo(affiliated, cfg, RepoSpecKey(repo.owner.login, repo.name)),
            cfg, RepoSpecKey(repo.owner.login, Null))

get_repo_activity_prefs(cfg, repo, is_affiliated) ==
    LET global == update(DefaultPrefs, cfg.activity)
        affiliated == IF is_affiliated
                      THEN update(global, cfg.activity.affiliated)
                      ELSE global
    IN  update_from_repo(
            update_from_repo(affiliated, cfg, RepoSpecKey(repo.owner.login, Null)),
            cfg, RepoSpecKey(repo.owner.login, repo.name))

(***************************************************************************)
(* SpecPrefs: one call of get_repo_activity_prefs.  The configuration sets *)
(* any of the fields of VariedFields, to either value, globally, for       *)
(* affiliated repositories, for o1/* and for o1/0, the last two tables     *)
(* being present or not; the repository is o1/0, o1/1 or o2/0, affiliated  *)
(* or not.                                                                 *)
(***************************************************************************)
VariedFields == {"issues", "released_tags"}

PartialActivityPrefs == UNION {[fields -> BOOLEAN] : fields \in SUBSET VariedFields}

RepoActivityPrefs == {prefs @@ [include |-> TRUE] : prefs \in PartialActivityPrefs}

RepoTables ==
    UNION {[keys -> RepoActivityPrefs] :
              keys \in SUBSET {RepoSpecKey("o1", Null), RepoSpecKey("o1", 0)}}

ActivityConfig ==
    {prefs @@ [affiliated |-> affiliated, repo |-> repo] :
        prefs \in PartialActivityPrefs, affiliated \in PartialActivityPrefs,
        repo \in RepoTables}

PrefsInit ==
    /\ \E table \in ActivityConfig :
        config = Configuration(ReposConfig(Affiliation, <<>>, <<>>), <<>>)
                     @@ [activity |-> table]
    /\ \E full_name \in {<<"o1", 0>>, <<"o1", 1>>, <<"o2", 0>>}, is_affiliated \in BOOLEAN :
        repositories = <<<<Repository("r1", full_name), is_affiliated>>>>
    /\ pc = "loop"
    /\ upstream = [r \in RepoIds |-> [it \in Kinds |-> <<>>]]
    /\ repo_names = [r \in RepoIds |-> <<IF r = "r1" THEN "o1" ELSE "o2", 0>>]
    /\ viewer_repos = [r \in {"r1"} |-> "OWNER"]
    /\ state_file = [exists |-> FALSE, snapshot |-> <<>>]
    /\ state = NoState
    /\ events = <<>>
    /\ activity = NoPrefs
    /\ log = <<>>
    /\ loaded = [exists |-> FALSE, snapshot |-> <<>>]
    /\ saves = 0
    /\ calls = <<>>
    /\ NoSession
    /\ transport = NoTransport
    /\ aborted = {}
    /\ owed = {}
    /\ first = NoFirst

\* The loop of get_new_activity takes the next repository and resolves its
\* preferences.
ResolvePrefs ==
    /\ pc = "loop"
    /\ repositories # <<>>
    /\ LET repo == Head(repositories)[1]
           is_affiliated == Head(repositories)[2]
       IN  /\ activity' = get_repo_activity_prefs(config, repo, is_affiliated)
           /\ calls' = [r \in {repo.id} |-> [repo |-> repo, is_affiliated |-> is_affiliated]]
    /\ repositories' = Tail(repositories)
    /\ pc' = "resolved"
    /\ UNCHANGED <<upstream, repo_names, viewer_repos, state_file, state, events, config,
                   log, loaded, saves, sessionVars, transport, aborted, owed, first>>

PrefsNext == ResolvePrefs

SpecPrefs == PrefsInit /\ [][PrefsNext]_vars

(***************************************************************************)
(* Properties of a session.                                                *)
(***************************************************************************)
EventsOf(evs, it) == SelectSeq(evs, LAMBDA ev : ev.event_type = it)

\* The feed of a kind in the repository of the session.
FeedOf(it) == upstream[manager.repo.id][it]

\* The position a stored cursor stands for: None is the start of the feed.
StartOf(cursor) == IF cursor = Null THEN 0 ELSE cursor

\* The items of a kind's feed that are newer than a stored cursor.
NewSince(it, cursor) == SubSeq(FeedOf(it), StartOf(cursor) + 1, Len(FeedOf(it)))

\* The pages the items newer than a stored cursor span.
PagesSince(it, cursor) == (Len(NewSince(it, cursor)) + PAGE_SIZE - 1) \div PAGE_SIZE

\* The newest position of a kind's feed, None when it has no history.
Latest(it) == IF FeedOf(it) = <<>> THEN Null ELSE Len(FeedOf(it))

\* A round trip has been made: query, response, cursors_before and yielded describe it.
Tripped == trips > 0

\* The sync call has driven its session to the end and returns.
Returned == pc \in {"session", "returned"} /\ ~manager.has_next_page

TypeSet == Range(manager.types)

(***************************************************************************)
(* C1: bootstrap.  After every round trip, for each kind that was absent   *)
(* from the cursor map when the trip began: the query's connection for it  *)
(* is the latest-only one and no cursor variable is passed; the answer     *)
(* holds an end-cursor and nothing else; the parse yielded no event of the *)
(* kind; the kind's cursor is now the answer's end-cursor, which is the    *)
(* newest position of the feed, or None when the feed is empty; and        *)
(* has_next_page is true exactly when some kind fetched forward reported a *)
(* next page.                                                              *)
(***************************************************************************)
C1_Bootstrap ==
    Tripped =>
        \A i \in 1..Len(manager.types) :
            LET it == manager.types[i]
                root == response.data.node[api_name(it)]
            IN  it \notin DOMAIN cursors_before =>
                    /\ query.connections[i] =
                            [name |-> api_name(it), shape |-> "LAST_CONNECTION"]
                    /\ (api_name(it) \o "_cursor") \notin DOMAIN query.variables
                    /\ DOMAIN root = {"pageInfo"}
                    /\ DOMAIN root.pageInfo = {"endCursor"}
                    /\ EventsOf(yielded, it) = <<>>
                    /\ it \in DOMAIN manager.cursors
                    /\ manager.cursors[it] = root.pageInfo.endCursor
                    /\ manager.cursors[it] = Latest(it)
                    /\ manager.has_next_page =
                            \E k \in TypeSet \cap DOMAIN cursors_before :
                                response.data.node[api_name(k)].pageInfo.hasNextPage

\* A trip that bootstrapped a kind with history beside a kind fetched forward
\* that has a next page; and one that bootstrapped a kind without history.
C1_Witness ==
    /\ Tripped
    /\ \E it \in TypeSet \ DOMAIN cursors_before :
            /\ FeedOf(it) # <<>>
            /\ manager.cursors[it] = Len(FeedOf(it))
    /\ manager.has_next_page
    /\ yielded # <<>>

Forward == TypeSet \cap DOMAIN cursors_in

Max(a, b) == IF a >= b THEN a ELSE b

RECURSIVE MaxOver(_, _)
MaxOver(S, f) ==
    IF S = {} THEN 0
    ELSE LET x == CHOOSE y \in S : TRUE
         IN  Max(f[x], MaxOver(S \ {x}, f))

TripsNeeded == Max(1, MaxOver(Forward, [it \in Forward |-> PagesSince(it, cursors_in[it])]))

C3_PaginationComplete ==
    pc \in {"session", "returned"} =>
        /\ trips <= TripsNeeded
        /\ manager.has_next_page = (trips < TripsNeeded)
        /\ Returned =>
              \A it \in Forward :
                  /\ EventsOf(collected, it) =
                        parse_nodes(it, manager.repo, NewSince(it, cursors_in[it]), <<>>)
                  /\ manager.cursors[it] =
                        IF NewSince(it, cursors_in[it]) = <<>>
                        THEN cursors_in[it]
                        ELSE Len(FeedOf(it))

\* A call has returned after three round trips, with one kind spanning three
\* pages and another fewer.
C3_Witness ==
    /\ Returned
    /\ trips = 3
    /\ \E it \in Forward : PagesSince(it, cursors_in[it]) = 3
    /\ \E it \in Forward : PagesSince(it, cursors_in[it]) = 1
    /\ Len(collected) > PAGE_SIZE

(***************************************************************************)
(* C4: after every round trip, the cursor of each kind fetched forward is  *)
(* the answer's end-cursor when that is not None, and otherwise what it    *)
(* was when the trip began; the cursors of kinds not asked for are as they *)
(* were.                                                                   *)
(***************************************************************************)
C4_CursorOnlyAdvancesOnEndCursor ==
    Tripped =>
        /\ \A it \in TypeSet \cap DOMAIN cursors_before :
              LET end == response.data.node[api_name(it)].pageInfo.endCursor
              IN  manager.cursors[it] = IF end # Null THEN end ELSE cursors_before[it]
        /\ \A it \in DOMAIN cursors_before \ TypeSet :
              manager.cursors[it] = cursors_before[it]

\* A trip whose answer had a None end-cursor for a kind whose stored cursor
\* was a position.
C4_Witness ==
    /\ Tripped
    /\ \E it \in TypeSet \cap DOMAIN cursors_before :
          /\ response.data.node[api_name(it)].pageInfo.endCursor = Null
          /\ cursors_before[it] # Null
          /\ manager.cursors[it] = cursors_before[it]

(***************************************************************************)
(* C5: idempotence.  When the second of two consecutive sync calls for the *)
(* same repository and kinds returns, with the upstream as it was, it has  *)
(* collected no event and its cursors are those the first call returned.   *)
(***************************************************************************)
C5_Idempotent ==
    (first.done /\ Returned) =>
        /\ collected = <<>>
        /\ manager.cursors = first.cursors
        /\ trips = 1

\* The second call has returned after a first one that collected events over
\* several pages and bootstrapped a kind.
C5_Witness ==
    /\ first.done
    /\ Returned
    /\ Len(first.events) > PAGE_SIZE
    /\ TypeSet \ DOMAIN first.began # {}
    /\ \E it \in TypeSet : first.cursors[it] = Null

(***************************************************************************)
(* C11: batching.  After every round trip of a session, has_next_page is   *)
(* true exactly when at least one kind that was fetched forward in the     *)
(* trip reported a next page in the answer; and when has_next_page is      *)
(* false every kind asked for is exhausted: no item of its feed lies       *)
(* beyond its cursor, while with has_next_page true some kind fetched      *)
(* forward still has items beyond its cursor.                              *)
(***************************************************************************)
Exhausted(it) ==
    /\ it \in DOMAIN manager.cursors
    /\ NewSince(it, manager.cursors[it]) = <<>>

C11_Batching ==
    Tripped =>
        /\ manager.has_next_page =
                \E it \in TypeSet \cap DOMAIN cursors_before :
                    response.data.node[api_name(it)].pageInfo.hasNextPage
        /\ ~manager.has_next_page => \A it \in TypeSet : Exhausted(it)
        /\ manager.has_next_page =>
                \E it \in TypeSet \cap DOMAIN cursors_before : ~Exhausted(it)

\* A trip of a session of several kinds fetched forward, one of which
\* reported a next page while another, with items of its own in the answer,
\* did not.
C11_Witness ==
    /\ Tripped
    /\ manager.has_next_page
    /\ \E a, b \in TypeSet \cap DOMAIN cursors_before :
          /\ response.data.node[api_name(a)].pageInfo.hasNextPage
          /\ ~response.data.node[api_name(b)].pageInfo.hasNextPage
          /\ response.data.node[api_name(b)].nodes # <<>>
          /\ Exhausted(b)
          /\ ~Exhausted(a)

(***************************************************************************)
(* Properties of enumeration, stated over the specs of the configuration   *)
(* as they are written, not over the RepoInclusions computed from them.    *)
(***************************************************************************)
IncludeSpecs == Range(config.repos.include) \cup Range(config.preffed_repos)

ExcludeSpecs == Range(config.repos.exclude)

\* A spec matches a full name: owner/* by the owner, owner/name by both.
Matches(rs, full_name) ==
    /\ rs.owner = full_name[1]
    /\ rs.name = Null \/ rs.name = full_name[2]

MatchesExclusion(full_name) == \E rs \in ExcludeSpecs : Matches(rs, full_name)

ViaAffiliation(r) ==
    /\ r \in DOMAIN viewer_repos
    /\ viewer_repos[r] \in Range(config.repos.affiliations)

ViaWildcard(r) == RepoSpec(repo_names[r][1], Null) \in IncludeSpecs

ViaSingle(r) == RepoSpec(repo_names[r][1], repo_names[r][2]) \in IncludeSpecs

Reachable(r) == ViaAffiliation(r) \/ ViaWildcard(r) \/ ViaSingle(r)

\* The source that comes first among those that reach a repository.
Rank(r) == IF ViaAffiliation(r) THEN 1 ELSE IF ViaWildcard(r) THEN 2 ELSE 3

\* The times the sources hand a repository to get_repositories: a single
\* repository is not asked for when its owner's wildcard is included.
Occurrences(r) ==
    (IF ViaAffiliation(r) THEN 1 ELSE 0)
    + (IF ViaWildcard(r) \/ ViaSingle(r) THEN 1 ELSE 0)

YieldedIds == [i \in 1..Len(repositories) |-> repositories[i][1].id]

Logged(level, msg, about) ==
    Cardinality({i \in 1..Len(log) : log[i] = LogEntry(level, msg, about)})

(***************************************************************************)
(* C12: enumeration dedup.  When get_repositories has run to its end, no   *)
(* repository id has been yielded twice; the repositories yielded are      *)
(* exactly those on the service that a source reaches and no exclusion     *)
(* matches, each as the service has it and flagged affiliated exactly when *)
(* the affiliation listing reaches it; they come in the order of the first *)
(* source that reaches them: affiliation, then wildcard owners, then       *)
(* single repositories; and every further occurrence of a repository has   *)
(* been dropped with a log entry.                                          *)
(***************************************************************************)
C12_EnumerationDedup ==
    pc = "dumped" =>
        /\ \A i, j \in DOMAIN YieldedIds : YieldedIds[i] = YieldedIds[j] => i = j
        /\ Range(YieldedIds) =
                {r \in DOMAIN repo_names :
                    Reachable(r) /\ ~MatchesExclusion(repo_names[r])}
        /\ \A i \in DOMAIN YieldedIds :
                repositories[i] = <<Repository(YieldedIds[i], repo_names[YieldedIds[i]]),
                                    ViaAffiliation(YieldedIds[i])>>
        /\ \A i, j \in DOMAIN YieldedIds :
                i < j => Rank(YieldedIds[i]) <= Rank(YieldedIds[j])
        /\ \A r \in Range(YieldedIds) :
                Logged("INFO", "fetched more than once", repo_names[r]) = Occurrences(r) - 1

\* Two repositories have been yielded: one that the affiliation listing and
\* an included wildcard both reach, flagged affiliated and logged as a
\* duplicate, after it one that only a single-repository spec reaches.
C12_Witness ==
    /\ pc = "dumped"
    /\ Len(repositories) = 2
    /\ ViaAffiliation(YieldedIds[1]) /\ ViaWildcard(YieldedIds[1])
    /\ repositories[1][2]
    /\ Logged("INFO", "fetched more than once", repo_names[YieldedIds[1]]) = 1
    /\ Rank(YieldedIds[2]) = 3
    /\ ~repositories[2][2]

(***************************************************************************)
(* C13: exclusion wins.  When get_repositories has run to its end, no      *)
(* repository it has yielded matches a spec of repos.exclude, be it a      *)
(* wildcard of its owner or its owner and name, whichever sources reach    *)
(* the repository; every time a source handed over a repository that an    *)
(* exclusion matches it was dropped with a log entry.                      *)
(***************************************************************************)
C13_ExclusionWins ==
    pc = "dumped" =>
        /\ \A i \in DOMAIN YieldedIds : ~MatchesExclusion(repositories[i][1].nameWithOwner)
        /\ \A r \in DOMAIN repo_names :
                MatchesExclusion(repo_names[r]) =>
                    /\ r \notin Range(YieldedIds)
                    /\ Logged("INFO", "excluded by config", repo_names[r])
                            = (IF ViaAffiliation(r) THEN 1 ELSE 0)
                              + (IF /\ ViaWildcard(r)
                                    /\ RepoSpec(repo_names[r][1], Null) \notin ExcludeSpecs
                                 THEN 1 ELSE 0)

\* A repository that the affiliation listing, an included wildcard and an
\* included single-repository spec all reach, excluded by owner and name, has
\* not been yielded, while the other repository of the same owner has.
C13_Witness ==
    /\ pc = "dumped"
    /\ \E r \in DOMAIN repo_names :
          /\ ViaAffiliation(r) /\ ViaWildcard(r) /\ ViaSingle(r)
          /\ RepoSpec(repo_names[r][1], repo_names[r][2]) \in ExcludeSpecs
          /\ RepoSpec(repo_names[r][1], Null) \notin ExcludeSpecs
          /\ r \notin Range(YieldedIds)
          /\ Logged("INFO", "excluded by config", repo_names[r]) = 2
          /\ \E q \in Range(YieldedIds) : repo_names[q][1] = repo_names[r][1]

(***************************************************************************)
(* Properties of a run.                                                    *)
(***************************************************************************)
\* The snapshot this run loaded: empty when there was no state file.
OldSnapshot == State_from_file(loaded).old_state

\* get_new_activity has returned: events is what the run reports.
Finished == pc \in {"report", "done"}

\* The repositories this run has fetched and committed with set_cursors.
Committed == DOMAIN calls

\* The events of one type about one repository, in the order reported.
EventsAbout(r, t) ==
    SelectSeq(events, LAMBDA ev : ev.event_type = t /\ ev.repo.id = r)

ActivityAbout(r) ==
    SelectSeq(events, LAMBDA ev : ev.event_type \in Kinds /\ ev.repo.id = r)

\* The newest position of a kind's feed in a repository, None without history.
LatestIn(r, it) == IF upstream[r][it] = <<>> THEN Null ELSE Len(upstream[r][it])

(***************************************************************************)
(* C6: when get_new_activity has returned, every repository it committed   *)
(* whose id was not in the loaded snapshot (its kinds being non-empty, or  *)
(* it would not have been fetched) has exactly one Tracked event, carrying *)
(* the repository, and no activity event, neither returned by its sync     *)
(* call nor reported; the new snapshot holds for it a cursor for exactly   *)
(* the active kinds, each at the newest position of its feed or None; and  *)
(* the saved file, if the run saves, holds that entry.                     *)
(***************************************************************************)
C6_NewlyTracked ==
    Finished =>
        \A r \in Committed \ DOMAIN OldSnapshot :
            /\ calls[r].types # <<>>
            /\ r \in DOMAIN state.new_state
            /\ EventsAbout(r, "tracked") =
                    <<RepoTrackedEvent(Now, state.new_state[r].repo)>>
            /\ calls[r].events = <<>>
            /\ ActivityAbout(r) = <<>>
            /\ DOMAIN state.new_state[r].cursors = Range(calls[r].types)
            /\ \A it \in Range(calls[r].types) :
                    state.new_state[r].cursors[it] = LatestIn(r, it)
            /\ saves > 0 => /\ r \in DOMAIN state_file.snapshot
                            /\ state_file.snapshot[r] = state.new_state[r]

\* A run has saved after committing a repository that is new to it and has a
\* history of several items, beside activity reported for another repository.
C6_Witness ==
    /\ pc = "done"
    /\ saves = 1
    /\ \E r \in Committed \ DOMAIN OldSnapshot :
            /\ \E it \in Range(calls[r].types) : Len(upstream[r][it]) >= 2
            /\ \E r2 \in Committed \ {r} : ActivityAbout(r2) # <<>>

(***************************************************************************)
(* C7: when get_new_activity has returned, every repository it committed   *)
(* whose id is in the loaded snapshot under another full name has exactly  *)
(* one Renamed event, carrying the repository as committed and as loaded,  *)
(* and no Tracked and no Untracked event; its sync call was started from   *)
(* the cursors the loaded snapshot holds under that id.  A committed       *)
(* repository loaded under the same name has none of the three.            *)
(***************************************************************************)
C7_RenameDetected ==
    Finished =>
        \A r \in Committed \cap DOMAIN OldSnapshot :
            /\ EventsAbout(r, "renamed") =
                    IF OldSnapshot[r].repo.nameWithOwner
                         # state.new_state[r].repo.nameWithOwner
                    THEN <<RepoRenamedEvent(Now, state.new_state[r].repo,
                                            OldSnapshot[r].repo)>>
                    ELSE <<>>
            /\ EventsAbout(r, "tracked") = <<>>
            /\ EventsAbout(r, "untracked") = <<>>
            /\ calls[r].cursors_in = OldSnapshot[r].cursors

\* A renamed repository has been committed, and its sync call, started from
\* the old cursors, has returned an item newer than them and nothing older.
C7_Witness ==
    /\ Finished
    /\ \E r \in Committed \cap DOMAIN OldSnapshot :
            /\ OldSnapshot[r].repo.nameWithOwner # state.new_state[r].repo.nameWithOwner
            /\ Len(EventsAbout(r, "renamed")) = 1
            /\ \E it \in DOMAIN OldSnapshot[r].cursors :
                    /\ OldSnapshot[r].cursors[it] # Null
                    /\ OldSnapshot[r].cursors[it] < Len(upstream[r][it])
            /\ calls[r].events # <<>>

(***************************************************************************)
(* C8: when get_new_activity has returned, every repository id of the      *)
(* loaded snapshot that this run has not committed has exactly one         *)
(* Untracked event, carrying the repository as the loaded snapshot has it, *)
(* and is absent from the new snapshot and from the file the run saves;    *)
(* every other repository has no Untracked event.                          *)
(***************************************************************************)
C8_UntrackDetected ==
    Finished =>
        \A r \in RepoIds :
            IF r \in DOMAIN OldSnapshot \ Committed
            THEN /\ EventsAbout(r, "untracked") =
                        <<RepoUntrackedEvent(Now, OldSnapshot[r].repo)>>
                 /\ r \notin DOMAIN state.new_state
                 /\ saves > 0 => r \notin DOMAIN state_file.snapshot
            ELSE EventsAbout(r, "untracked") = <<>>

\* A run has saved without one repository of the loaded snapshot, which was
\* renamed upstream since, and with another that it committed.
C8_Witness ==
    /\ pc = "done"
    /\ saves = 1
    /\ \E r \in DOMAIN OldSnapshot \ Committed :
            /\ OldSnapshot[r].repo.nameWithOwner # repo_names[r]
            /\ Len(EventsAbout(r, "untracked")) = 1
    /\ Committed \cap DOMAIN OldSnapshot # {}

(***************************************************************************)
(* C9: State.save is called at most once in a run, and only when           *)
(* get_new_activity has returned with no repository left; the file then    *)
(* holds the new snapshot.  Until then, and in a run that has raised or    *)
(* that ends without saving, the state file is as the run loaded it.       *)
(***************************************************************************)
C9_SavedOnceAtTheEnd ==
    /\ saves <= 1
    /\ saves = 1 => /\ pc = "done"
                    /\ repositories = <<>>
                    /\ state_file = save(state)
    /\ (pc \in {"loop", "session", "report", "raised", "done"} /\ saves = 0) =>
            state_file = loaded
    /\ pc = "raised" => saves = 0

\* A run has raised after committing, in memory, cursors that differ from
\* those of the file it loaded.
C9_Witness ==
    /\ pc = "raised"
    /\ loaded.exists
    /\ \E r \in Committed \cap DOMAIN OldSnapshot :
            state.new_state[r].cursors # OldSnapshot[r].cursors
    /\ state_file = loaded

(***************************************************************************)
(* C10, as the specification states it: an item created while the state    *)
(* file held a cursor of its repository and kind is returned by the next   *)
(* sync call that fetches that repository and kind, and by every later one *)
(* until a run has saved a cursor that reaches it.                         *)
(***************************************************************************)
C10_AtLeastOnceOriginal ==
    (pc = "session" /\ ~manager.has_next_page) =>
        \A x \in owed :
            (x[1] = manager.repo.id /\ x[2] \in TypeSet) =>
                \E i \in 1..Len(collected) : ItemOf(collected[i]) = x

(***************************************************************************)
(* C10, amended: at-least-once delivery while the cursor stays in the      *)
(* state file.                                                             *)
(*  - When a sync call returns, for every kind it fetched whose cursor is  *)
(*    in the state file, it has returned the event of every item of the    *)
(*    feed that is newer than that cursor: nothing is skipped.             *)
(*  - When a run has saved, a cursor of the file that it has changed has   *)
(*    moved forward, over items whose events the run's sync call for that  *)
(*    repository and kind returned, and over no others.                    *)
(*  - When a sync call returns in the run that follows one that raised, it *)
(*    has returned again every item of the kinds it fetched that a sync    *)
(*    call of that run had returned.                                       *)
(***************************************************************************)
ItemsOf(evs) == {ItemOf(evs[i]) : i \in 1..Len(evs)}

PersistedCursors(r) ==
    IF r \in DOMAIN OldSnapshot THEN OldSnapshot[r].cursors ELSE <<>>

C10_AtLeastOnce ==
    /\ (pc = "session" /\ ~manager.has_next_page) =>
          /\ \A it \in TypeSet \cap DOMAIN PersistedCursors(manager.repo.id) :
                EventsOf(collected, it) =
                    parse_nodes(it, manager.repo,
                        NewSince(it, PersistedCursors(manager.repo.id)[it]), <<>>)
          /\ \A x \in aborted :
                (x[1] = manager.repo.id /\ x[2] \in TypeSet) => x \in ItemsOf(collected)
    /\ (pc = "done" /\ saves = 1) =>
          \A r \in DOMAIN state_file.snapshot \cap DOMAIN OldSnapshot :
              \A it \in DOMAIN state_file.snapshot[r].cursors
                            \cap DOMAIN OldSnapshot[r].cursors :
                  LET old == OldSnapshot[r].cursors[it]
                      new == state_file.snapshot[r].cursors[it]
                  IN  new # old =>
                        /\ StartOf(new) > StartOf(old)
                        /\ r \in Committed
                        /\ it \in Range(calls[r].types)
                        /\ EventsOf(calls[r].events, it) =
                              parse_nodes(it, state_file.snapshot[r].repo,
                                  SubSeq(upstream[r][it], StartOf(old) + 1, StartOf(new)),
                                  <<>>)

\* A sync call returns an item that a sync call of the run before, which
\* raised, had returned, together with an item created since.
C10_Witness ==
    /\ pc = "session"
    /\ ~manager.has_next_page
    /\ \E x \in aborted : x \in ItemsOf(collected)
    /\ \E ev \in Range(collected) :
            ev.event_type \in DOMAIN PersistedCursors(manager.repo.id)
            /\ ItemOf(ev) \notin aborted

(***************************************************************************)
(* C14: not-found is recoverable.  In a run, from the enumeration on: the  *)
(* log holds one warning for every included owner and one for every        *)
(* included repository that the service does not know (and that the        *)
(* configuration asks for: a single repository is not asked for under an   *)
(* included wildcard, nor is anything excluded), and no other warning;     *)
(* what get_repositories yields is what it yields under the configuration  *)
(* without those specs, so that only the missing sources are skipped; the  *)
(* loop works through that list, and when get_new_activity has returned    *)
(* the list is used up, the new snapshot holds every repository the run    *)
(* committed, as the service has it, with the cursors its sync call        *)
(* returned, and the events reported about it are those the filters kept.  *)
(***************************************************************************)
Exists(rs) ==
    IF rs.name = Null
    THEN rs.owner \in Users
    ELSE \E r \in DOMAIN repo_names : repo_names[r] = <<rs.owner, rs.name>>

\* The included specs the service is asked about and does not know.
MissingSpecs ==
    {rs \in IncludeSpecs :
        /\ ~Exists(rs)
        /\ RepoSpec(rs.owner, Null) \notin ExcludeSpecs
        /\ rs.name # Null =>
              /\ RepoSpec(rs.owner, Null) \notin IncludeSpecs
              /\ rs \notin ExcludeSpecs}

WarningFor(rs) ==
    IF rs.name = Null
    THEN LogEntry("WARNING", "User does not exist", <<rs.owner>>)
    ELSE LogEntry("WARNING", "Repository does not exist", <<rs.owner, rs.name>>)

\* The configuration of the run with only the specs the service knows.
ExistingOnly ==
    Configuration(
        ReposConfig(config.repos.affiliations,
                    SelectSeq(config.repos.include, Exists),
                    config.repos.exclude),
        SelectSeq(config.preffed_repos, Exists))

ExpectedRepositories == get_repositories(repo_names, viewer_repos, ExistingOnly).yielded

IdsOf(yields) == {yields[i][1].id : i \in 1..Len(yields)}

Fetched(r) == calls[r].new_events[1]

\* new_events after the my_activity filter, after the release filter and after
\* the released_tags filter.
AfterMine(r) == calls[r].new_events[2]

AfterQuality(r) == calls[r].new_events[3]

Reported(r) == calls[r].new_events[4]

\* b is what is left of a when the events not in keep are dropped, in order.
Keeps(a, b, keep) ==
    /\ Range(b) = Range(a) \cap keep
    /\ b = SelectSeq(a, LAMBDA ev : ev \in Range(b))

QualityFilterOn(prefs) == prefs.releases /\ ~(prefs.prereleases /\ prefs.drafts)

CollisionFilterOn(prefs) == prefs.releases /\ prefs.tags /\ ~prefs.released_tags

(***************************************************************************)
(* C15: self-filter.  For every repository committed under preferences     *)
(* with my_activity false: the my_activity filter drops exactly the events *)
(* the sync call returned that are the viewer's own and keeps the others   *)
(* in order; none of the viewer's events is in get_new_activity's list,    *)
(* and when neither of the other two filters is in force the activity      *)
(* events about the repository in that list are the others; the cursors    *)
(* committed to the new snapshot are those the sync call returned, each    *)
(* at the newest position of its kind's feed, so at or after every event   *)
(* that was dropped.                                                       *)
(***************************************************************************)
C15_SelfFilter ==
    \A r \in Committed :
        ~calls[r].prefs.my_activity =>
            LET mine == {ev \in Range(Fetched(r)) : is_mine(ev)}
            IN  /\ Keeps(Fetched(r), AfterMine(r), Range(Fetched(r)) \ mine)
                /\ Range(events) \cap mine = {}
                /\ (~QualityFilterOn(calls[r].prefs) /\ ~CollisionFilterOn(calls[r].prefs)) =>
                        /\ Range(ActivityAbout(r)) = Range(Fetched(r)) \ mine
                        /\ Len(ActivityAbout(r)) = Cardinality(Range(Fetched(r)) \ mine)
                /\ r \in DOMAIN state.new_state
                /\ state.new_state[r].cursors = calls[r].cursors_out
                /\ \A it \in Range(calls[r].types) :
                        state.new_state[r].cursors[it] = LatestIn(r, it)
                /\ \A ev \in mine :
                        ev.event_type \in {"issue", "release", "tag"} =>
                            state.new_state[r].cursors[ev.event_type] >= ItemOf(ev)[3]

\* get_new_activity has returned; for a repository fetched with my_activity
\* false the sync call returned an event of the viewer's and one of somebody
\* else's: the first is not in the list, the second is, and the committed
\* cursor of the first one's kind is at or after it.
C15_Witness ==
    /\ pc = "report"
    /\ \E r \in Committed :
        /\ ~calls[r].prefs.my_activity
        /\ \E i, j \in 1..Len(Fetched(r)) :
            /\ is_mine(Fetched(r)[i])
            /\ Fetched(r)[i] \notin Range(events)
            /\ state.new_state[r].cursors[Fetched(r)[i].event_type]
                    >= ItemOf(Fetched(r)[i])[3]
            /\ ~is_mine(Fetched(r)[j])
            /\ Fetched(r)[j] \in Range(events)

(***************************************************************************)
(* C16: filtering does not affect pagination state.  When get_new_activity *)
(* has returned for the second time, from the same state file and over the *)
(* same upstream, having fetched the same repositories for the same kinds  *)
(* as the first time (the preferences of the two runs differ at most in    *)
(* my_activity, prereleases, drafts and released_tags), the cursors each   *)
(* sync call returned and the new snapshot are those of the first time,    *)
(* and so is the state file if the run saves.                              *)
(***************************************************************************)
SameKinds ==
    /\ DOMAIN calls = DOMAIN first.types
    /\ \A r \in DOMAIN calls : calls[r].types = first.types[r]

C16_FilteringKeepsCursors ==
    (Finished /\ first.done /\ SameKinds) =>
        /\ \A r \in DOMAIN calls : calls[r].cursors_out = first.cursors[r]
        /\ state.new_state = first.new_state
        /\ (pc = "done" /\ saves = 1) => state_file.snapshot = first.new_state

\* The second call has returned a list of another length than the first,
\* having fetched the same kinds with events dropped by a filter, and the
\* run has saved.
C16_Witness ==
    /\ pc = "done"
    /\ saves = 1
    /\ first.done
    /\ SameKinds
    /\ first.reported # Len(events)
    /\ \E r \in DOMAIN calls : Len(Reported(r)) < Len(Fetched(r))
    /\ state_file.snapshot = first.new_state
    /\ first.new_state # <<>>

(***************************************************************************)
(* C17: release quality filter.  For every committed repository, of the    *)
(* events that reach the release filter it drops exactly the Release       *)
(* events flagged prerelease when prereleases are disabled and those       *)
(* flagged draft when drafts are disabled; every other event is kept, in   *)
(* order, so the events that are not releases pass through as they came;   *)
(* and no dropped release is in get_new_activity's list.                   *)
(***************************************************************************)
Unwanted(prefs, ev) ==
    /\ ev.event_type = "release"
    /\ \/ ~prefs.prereleases /\ ev.isPrerelease
       \/ ~prefs.drafts /\ ev.isDraft

NotRelease(evs) == SelectSeq(evs, LAMBDA ev : ev.event_type # "release")

C17_ReleaseQuality ==
    \A r \in Committed :
        LET unwanted == {ev \in Range(AfterMine(r)) : Unwanted(calls[r].prefs, ev)}
        IN  /\ Keeps(AfterMine(r), AfterQuality(r), Range(AfterMine(r)) \ unwanted)
            /\ NotRelease(AfterQuality(r)) = NotRelease(AfterMine(r))
            /\ Range(events) \cap unwanted = {}

\* get_new_activity has returned; with prereleases and drafts both disabled a
\* prerelease and a draft reached the filter and neither is in the list, while
\* a release that is neither and an event that is not a release are.
C17_Witness ==
    /\ pc = "report"
    /\ \E r \in Committed :
        /\ ~calls[r].prefs.prereleases
        /\ ~calls[r].prefs.drafts
        /\ \E a, b, c, d \in Range(AfterMine(r)) :
            /\ a.event_type = "release" /\ a.isPrerelease /\ ~a.isDraft
            /\ b.event_type = "release" /\ b.isDraft /\ ~b.isPrerelease
            /\ c.event_type = "release" /\ ~c.isDraft /\ ~c.isPrerelease
            /\ d.event_type # "release"
            /\ a \notin Range(events) /\ b \notin Range(events)
            /\ c \in Range(events) /\ d \in Range(events)

(***************************************************************************)
(* C18: tag/release collision.  For every committed repository: with       *)
(* releases and tags both tracked and released_tags false, the Tag events  *)
(* missing from what the repository contributes to the list are exactly    *)
(* those, of the ones that reach the released_tags filter, whose name is   *)
(* the tag name of a Release event that reaches it too, and each such      *)
(* Release event is in get_new_activity's list while the Tag event is      *)
(* not; with released_tags true, or one of the two kinds not tracked, the  *)
(* filter changes nothing and every Tag event that reaches it is in the    *)
(* list.                                                                   *)
(***************************************************************************)
ReleasesIn(evs) == {ev \in Range(evs) : ev.event_type = "release"}

TagsIn(evs) == {ev \in Range(evs) : ev.event_type = "tag"}

Released(r) ==
    {ev \in TagsIn(AfterQuality(r)) :
        \E rel \in ReleasesIn(AfterQuality(r)) : rel.tagName = ev.name}

C18_TagReleaseCollision ==
    \A r \in Committed :
        /\ CollisionFilterOn(calls[r].prefs) =>
                /\ Range(Reported(r)) = Range(AfterQuality(r)) \ Released(r)
                /\ Len(Reported(r)) = Len(AfterQuality(r)) - Cardinality(Released(r))
                /\ Range(events) \cap Released(r) = {}
                /\ ReleasesIn(AfterQuality(r)) \subseteq Range(events)
                /\ TagsIn(AfterQuality(r)) \ Released(r) \subseteq Range(events)
        /\ ~CollisionFilterOn(calls[r].prefs) =>
                /\ Reported(r) = AfterQuality(r)
                /\ TagsIn(AfterQuality(r)) \subseteq Range(events)

\* get_new_activity has returned; with releases and tags tracked and
\* released_tags false, a tag named as a reported release is not in the list,
\* and a tag named as a release that the sync call returned and an earlier
\* filter dropped is.
C18_Witness ==
    /\ pc = "report"
    /\ \E r \in Committed :
        /\ CollisionFilterOn(calls[r].prefs)
        /\ \E t \in Released(r) :
            /\ t \notin Range(events)
            /\ \E rel \in ReleasesIn(events) : rel.tagName = t.name /\ rel.repo.id = r
        /\ \E t \in TagsIn(events) :
            /\ t.repo.id = r
            /\ \E rel \in ReleasesIn(Fetched(r)) :
                    rel.tagName = t.name /\ rel \notin Range(events)

(***************************************************************************)
(* C19: global ordering.  When get_new_activity has returned, its list     *)
(* holds, once each, the events every committed repository contributed     *)
(* and the lifecycle events of the run, and nothing else, and it is        *)
(* non-decreasing by timestamp.                                            *)
(***************************************************************************)
Contributed == UNION {Range(Reported(r)) : r \in Committed}

LifecycleEvents == Range(get_state_events(state, Now))

C19_GlobalOrdering ==
    Finished =>
        /\ Range(events) = Contributed \cup LifecycleEvents
        /\ Len(events) = Cardinality(Contributed \cup LifecycleEvents)
        /\ \A i \in 1..Len(events) - 1 : events[i].timestamp <= events[i + 1].timestamp

\* get_new_activity has returned a list in which an event about r1 comes
\* before one about r2 and another about r2 before one about r1, all four
\* activity events, with timestamps that differ and a lifecycle event at
\* the end.
C19_Witness ==
    /\ pc = "report"
    /\ \E i, j, k, l \in 1..Len(events) :
        /\ i < j /\ k < l
        /\ \A n \in {i, j, k, l} : events[n].event_type \in Kinds
        /\ events[i].repo.id = "r1" /\ events[j].repo.id = "r2"
        /\ events[k].repo.id = "r2" /\ events[l].repo.id = "r1"
        /\ events[i].timestamp < events[l].timestamp
    /\ events[Len(events)] \in LifecycleEvents

(***************************************************************************)
(* Tie order.  Where an activity event stands in the order of production:  *)
(* the place of its repository in the enumeration, the round trip of the   *)
(* sync call that brought it, the place of its kind in ActivityType, its   *)
(* place in its kind's feed; and whether the released_tags filter has put  *)
(* it, a Tag event, behind the repository's other events.                  *)
(***************************************************************************)
Enumerated == get_repositories(repo_names, viewer_repos, config).yielded

RepoPlace(order, ev) == CHOOSE i \in 1..Len(order) : order[i][1].id = ev.repo.id

KindPlace(ev) == CHOOSE i \in 1..Len(ActivityType) : ActivityType[i] = ev.event_type

\* A star and a fork carry no number: a feed of stars or forks has one item.
Arrival(ev) == IF ev.event_type \in {"star", "fork"} THEN 1 ELSE ItemOf(ev)[3]

TripOf(ev) ==
    (Arrival(ev) - StartOf(calls[ev.repo.id].cursors_in[ev.event_type]) - 1) \div PAGE_SIZE

PutLast(ev) ==
    IF ev.event_type = "tag" /\ CollisionFilterOn(calls[ev.repo.id].prefs) THEN 1 ELSE 0

\* Lexicographic order of tuples of numbers of one length.
Before(a, b) ==
    \E k \in 1..Len(a) : a[k] < b[k] /\ \A m \in 1..(k - 1) : a[m] = b[m]

Tied(i, j) ==
    /\ i < j
    /\ events[i].event_type \in Kinds
    /\ events[j].event_type \in Kinds
    /\ events[i].timestamp = events[j].timestamp

Answered == pc = "answered"

\* A network-level failure, or one of the statuses that call for a retry.
Retryable(answer) ==
    \/ "error" \in DOMAIN answer
    \/ answer.status_code \in {500, 502, 503, 504}

\* A 200 whose body parses and holds no errors.
Success(answer) ==
    /\ "error" \notin DOMAIN answer
    /\ answer.status_code = 200
    /\ answer.body # Unparseable
    /\ \/ "errors" \notin DOMAIN answer.body.object
       \/ answer.body.object["errors"] = <<>>

\* min(1.25 * 2^i, 120) seconds, in quarters of a second.
RetryDelay(i) == Min(5 * 2^i, 480)

(***************************************************************************)
(* C21: retry policy.  When Client.query has returned or raised: if the    *)
(* server answered k requests (k <= 5) with a network-level failure or a   *)
(* 500, 502, 503 or 504 and the next with a success, the call returned     *)
(* that response after k + 1 requests, having slept min(1.25 * 2^i, 120)   *)
(* seconds before retry i; if it answered six requests so, the call        *)
(* raised.                                                                 *)
(***************************************************************************)
C21_RetryPolicy ==
    Answered =>
        LET answers == transport.answers
        IN  /\ \A k \in 0..5 :
                    (/\ k < Len(answers)
                     /\ \A i \in 1..k : Retryable(answers[i])
                     /\ Success(answers[k + 1])) =>
                        /\ transport.outcome = [returns |-> answers[k + 1].body]
                        /\ transport.requests = k + 1
                        /\ transport.slept = [i \in 1..k |-> RetryDelay(i)]
            /\ (Len(answers) >= 6 /\ \A i \in 1..6 : Retryable(answers[i])) =>
                    /\ "raises" \in DOMAIN transport.outcome
                    /\ transport.requests = 6

(***************************************************************************)
(* C22: when Client.query has returned or raised and the server's first    *)
(* answer was a response whose status is neither 2xx nor 500, 502, 503 or  *)
(* 504, the call raised APIException after that one request, without       *)
(* sleeping, whatever the server had ready next.                           *)
(***************************************************************************)
FatalStatus(answer) ==
    /\ "error" \notin DOMAIN answer
    /\ answer.status_code \notin 200..299
    /\ answer.status_code \notin {500, 502, 503, 504}

NotFoundEntry(entry) ==
    /\ "object" \in DOMAIN entry
    /\ "type" \in DOMAIN entry.object
    /\ entry.object["type"] = "NOT_FOUND"

HasErrors(answer) ==
    /\ "error" \notin DOMAIN answer
    /\ answer.status_code = 200
    /\ answer.body # Unparseable
    /\ "errors" \in DOMAIN answer.body.object
    /\ answer.body.object["errors"] # <<>>

C23_ErrorClassification ==
    (Answered /\ HasErrors(transport.answers[1])) =>
        LET errors == transport.answers[1].body.object["errors"]
        IN  /\ (\E i \in 1..Len(errors) : ~NotFoundEntry(errors[i])) =>
                    transport.outcome = [raises |-> "APIException"]
            /\ transport.outcome = [raises |-> "NotFoundError"] =>
                    \A i \in 1..Len(errors) : NotFoundEntry(errors[i])

(***************************************************************************)
(* C24: bogus tag entries.  When a page of tags has been parsed: the parse *)
(* yielded one Tag event for every node that is not bogus, in the order of *)
(* the page, and nothing for a bogus node, which is one whose target is    *)
(* neither a Commit nor a Tag, a Commit without a date, or a Tag without a *)
(* tagger or without the tagger's date; the stored cursor is the page's    *)
(* end-cursor (the old one when that is None) and has_next_page is the     *)
(* page's; and events, cursors and has_next_page are what the parse of the *)
(* same response without its bogus nodes gives.                            *)
(***************************************************************************)
Bogus(node) ==
    \/ node.target.typename \notin {"Commit", "Tag"}
    \/ node.target.typename = "Commit" /\ node.target.committedDate = Null
    \/ /\ node.target.typename = "Tag"
       /\ \/ "date" \notin DOMAIN node.target.tagger
          \/ node.target.tagger.date = Null

TagsRoot == response.data.node["tags"]

GoodNodes == SelectSeq(TagsRoot.nodes, LAMBDA node : ~Bogus(node))

\* The response without the bogus nodes of its page.
WithoutBogus == [data |-> [node |-> [tags |-> [TagsRoot EXCEPT !.nodes = GoodNodes]]]]

\* The manager as it was when the response arrived.
ManagerBefore == [manager EXCEPT !.cursors = cursors_before, !.has_next_page = TRUE]

C24_BogusTagsDiscarded ==
    pc = "parsed" =>
        /\ Len(yielded) = Len(GoodNodes)
        /\ \A i \in 1..Len(yielded) :
                /\ yielded[i] # BogusEventError
                /\ yielded[i].event_type = "tag"
                /\ yielded[i].name = GoodNodes[i].name
        /\ manager.cursors["tag"] =
                IF TagsRoot.pageInfo.endCursor # Null
                THEN TagsRoot.pageInfo.endCursor
                ELSE cursors_before["tag"]
        /\ manager.has_next_page = TagsRoot.pageInfo.hasNextPage
        /\ yielded = parse_response(ManagerBefore, WithoutBogus).events
        /\ manager = parse_response(ManagerBefore, WithoutBogus).manager

\* A page of three nodes, the second one bogus, with more pages to follow,
\* has been parsed: the first and the third node have yielded an event each
\* and the cursor has moved to the page's end-cursor.
C24_Witness ==
    /\ pc = "parsed"
    /\ Len(TagsRoot.nodes) = 3
    /\ ~Bogus(TagsRoot.nodes[1]) /\ Bogus(TagsRoot.nodes[2]) /\ ~Bogus(TagsRoot.nodes[3])
    /\ Len(yielded) = 2
    /\ yielded[1].name = 1 /\ yielded[2].name = 3
    /\ TagsRoot.pageInfo.hasNextPage /\ manager.has_next_page
    /\ manager.cursors["tag"] = 2 /\ cursors_before["tag"] = 1

(***************************************************************************)
(* C25: activity preference resolution.  When the preferences of a         *)
(* repository have been resolved, every field has the value set by the     *)
(* most specific scope that sets it, the scopes being, from the least      *)
(* specific: the built-in defaults, the global table, the affiliated table *)
(* (a scope only when the repository is affiliated), the table of owner/*  *)
(* and the table of owner/name (scopes when the configuration has them).   *)
(***************************************************************************)
Resolved == pc = "resolved"

ResolvedFor == calls["r1"]

\* The scopes of the repository, from the least specific.
Scopes ==
    LET repo == ResolvedFor.repo
        owner_wide == RepoSpecKey(repo.nameWithOwner[1], Null)
        single == RepoSpecKey(repo.nameWithOwner[1], repo.nameWithOwner[2])
    IN  <<DefaultPrefs, config.activity>>
        \o (IF ResolvedFor.is_affiliated THEN <<config.activity.affiliated>> ELSE <<>>)
        \o (IF owner_wide \in DOMAIN config.activity.repo
            THEN <<config.activity.repo[owner_wide]>> ELSE <<>>)
        \o (IF single \in DOMAIN config.activity.repo
            THEN <<config.activity.repo[single]>> ELSE <<>>)

\* The place in Scopes of the most specific scope that sets a field.
MostSpecific(field_name) ==
    CHOOSE i \in 1..Len(Scopes) :
        /\ field_name \in DOMAIN Scopes[i]
        /\ \A j \in (i + 1)..Len(Scopes) : field_name \notin DOMAIN Scopes[j]

C25_PrefResolution ==
    Resolved =>
        /\ DOMAIN activity = DOMAIN DefaultPrefs
        /\ \A field_name \in DOMAIN DefaultPrefs :
                activity[field_name] = Scopes[MostSpecific(field_name)][field_name]

\* An affiliated repository o1/0 has been resolved under a configuration in
\* which all four tables are scopes: issues is set to false globally, to true
\* for affiliated repositories and to false for o1/0, and left unset for
\* o1/*; released_tags is set to true for o1/* only.  The result has issues
\* false (owner/name wins) and released_tags true (the unset field of
\* owner/name does not restore the default).
C25_Witness ==
    /\ Resolved
    /\ ResolvedFor.is_affiliated
    /\ Len(Scopes) = 5
    /\ "issues" \in DOMAIN Scopes[2] /\ ~Scopes[2]["issues"]
    /\ "issues" \in DOMAIN Scopes[3] /\ Scopes[3]["issues"]
    /\ "issues" \notin DOMAIN Scopes[4]
    /\ "issues" \in DOMAIN Scopes[5] /\ ~Scopes[5]["issues"]
    /\ "released_tags" \in DOMAIN Scopes[4] /\ Scopes[4]["released_tags"]
    /\ "released_tags" \notin DOMAIN Scopes[2] \cup DOMAIN Scopes[3] \cup DOMAIN Scopes[5]
    /\ ~activity["issues"]
    /\ activity["released_tags"]

(***************************************************************************)
(* C26: --no-save.  Every step in which main reports the events of a run   *)
(* and then saves or not leaves get_new_activity's list as it was, the     *)
(* same list whether saving is enabled or not; with saving disabled the    *)
(* state file after the step is the one the run loaded; with saving        *)
(* enabled it holds the new snapshot.                                      *)
(***************************************************************************)
C26_NoSave ==
    [][\A do_save \in BOOLEAN :
          Report(do_save) =>
              /\ events' = events
              /\ IF do_save
                 THEN state_file' = [exists |-> TRUE, snapshot |-> state.new_state]
                 ELSE state_file' = loaded /\ state_file' = state_file]_vars

\* A run that loaded a saved snapshot, found new activity and would have
\* changed the snapshot has ended without saving: the file is as loaded.
C26_Witness ==
    /\ pc = "done"
    /\ saves = 0
    /\ events # <<>>
    /\ loaded.exists
    /\ state.new_state # loaded.snapshot
    /\ state_file = loaded

(***************************************************************************)
(* C27: dump-repos.  When the dump-repos mode has enumerated: what it      *)
(* yielded and logged is what get_repositories yields and logs in a normal *)
(* run under the same configuration (no id twice, nothing that an          *)
(* exclusion matches, every reachable repository of the service that is    *)
(* not excluded); no sync call has been made, no round trip, no event      *)
(* collected or listed; the new snapshot is empty and nothing has been     *)
(* saved.  And no step of a dump-repos run changes the state file.         *)
(***************************************************************************)
C27_DumpRepos ==
    /\ [](pc = "dumped" =>
            /\ repositories = get_repositories(repo_names, viewer_repos, config).yielded
            /\ log = get_repositories(repo_names, viewer_repos, config).log
            /\ \A i, j \in DOMAIN YieldedIds : YieldedIds[i] = YieldedIds[j] => i = j
            /\ Range(YieldedIds) =
                    {r \in DOMAIN repo_names :
                        Reachable(r) /\ ~MatchesExclusion(repo_names[r])}
            /\ manager = NoManager
            /\ trips = 0
            /\ calls = <<>>
            /\ collected = <<>>
            /\ events = <<>>
            /\ state.new_state = <<>>
            /\ saves = 0
            /\ state_file = loaded)
    /\ [][state_file' = state_file]_vars

\* The dump-repos mode has enumerated r2 while the state file holds r2 with
\* its issue cursor at 1 and the upstream has a second issue: nothing has
\* been fetched and the file is as it was.
C27_Witness ==
    /\ pc = "dumped"
    /\ "r2" \in Range(YieldedIds)
    /\ state_file.exists
    /\ DOMAIN state_file.snapshot = {"r2"}
    /\ state_file.snapshot["r2"].cursors["issue"] = 1
    /\ Len(upstream["r2"]["issue"]) = 2
    /\ events = <<>>
    /\ trips = 0

(***************************************************************************)
(* C28: a bootstrapped kind in a batched session.  After every round trip  *)
(* of a session but the first, for each kind that was absent from the      *)
(* cursor map the session began with: the trip yielded no event of the     *)
(* kind, the session has collected none, the kind's page in the answer is  *)
(* empty and reports no next page, and the kind's cursor is still the      *)
(* latest position of its feed (None without history).                     *)
(***************************************************************************)
Bootstrapped == TypeSet \ DOMAIN cursors_in

PageEnd(it, cursor) == Min(StartOf(cursor) + PAGE_SIZE, Len(FeedOf(it)))

EventsBetween(it, from, to) ==
    parse_nodes(it, manager.repo, SubSeq(FeedOf(it), from + 1, to), <<>>)

C29_OnePagePerTrip ==
    (pc \in {"session", "returned"} /\ Tripped) =>
        \A it \in TypeSet \cap DOMAIN cursors_before :
            LET start == StartOf(cursors_before[it])
                last == PageEnd(it, cursors_before[it])
            IN  /\ query.variables[api_name(it) \o "_cursor"] = cursors_before[it]
                /\ response.data.node[api_name(it)].nodes = SubSeq(FeedOf(it), start + 1, last)
                /\ EventsOf(yielded, it) = EventsBetween(it, start, last)
                /\ StartOf(manager.cursors[it]) = last
                /\ start < Len(FeedOf(it)) => last > start
                /\ it \in DOMAIN cursors_in =>
                        EventsOf(collected, it) =
                            EventsBetween(it, StartOf(cursors_in[it]), last)

\* The third round trip of a session for two kinds has been made: one kind
\* has been advanced by a full page in each trip, the other ran out of items
\* in the second.
C29_Witness ==
    /\ pc = "session"
    /\ trips = 3
    /\ \E it \in Forward :
        /\ StartOf(cursors_before[it]) = StartOf(cursors_in[it]) + 2 * PAGE_SIZE
        /\ StartOf(manager.cursors[it]) > StartOf(cursors_before[it])
        /\ Len(EventsOf(collected, it)) > 2 * PAGE_SIZE
    /\ \E it \in Forward :
        /\ StartOf(cursors_before[it]) = Len(FeedOf(it))
        /\ StartOf(cursors_before[it]) > StartOf(cursors_in[it]) + PAGE_SIZE
        /\ EventsOf(yielded, it) = <<>>

(***************************************************************************)
(* C30: what suppresses a tag.  When get_new_activity has returned, for    *)
(* every committed repository and every Tag event about it that reached    *)
(* the released_tags filter: the event is missing from the list only if    *)
(* releases and tags are tracked with released_tags false and the list     *)
(* holds a Release event about the same repository with that tag name; so  *)
(* a tag is in the list when the only releases of its name are ones the    *)
(* my_activity or the release filter dropped, ones of another repository,  *)
(* or ones before the release cursor the run started from.                 *)
(***************************************************************************)
RetainedReleases(r) == {rel \in ReleasesIn(events) : rel.repo.id = r}

\* The releases of a repository that an earlier filter of this run dropped.
DroppedReleases(r) == ReleasesIn(Fetched(r)) \ ReleasesIn(AfterQuality(r))

\* The tag names of the releases that lie before the cursor the run began at.
PriorReleaseTags(r) ==
    IF "release" \in DOMAIN calls[r].cursors_in
    THEN {upstream[r]["release"][n].tagName : n \in 1..StartOf(calls[r].cursors_in["release"])}
    ELSE {}

C30_CollisionScope ==
    Finished =>
        \A r \in Committed :
            \A t \in TagsIn(AfterQuality(r)) :
                LET named == {rel \in RetainedReleases(r) : rel.tagName = t.name}
                IN  /\ t \notin Range(events) =>
                            CollisionFilterOn(calls[r].prefs) /\ named # {}
                    /\ named = {} => t \in Range(events)

\* get_new_activity has returned with the released_tags filter in force for
\* r1.  Tag 1 is in the list: release 1 of r1 lies before the cursor the run
\* began at, and release 1 of r2 is in the list.  Tag 2 is in the list: the
\* my_activity filter dropped release 2 of r1.  Tag 3 is in the list: the
\* release filter dropped release 3 of r1.
C30_Witness ==
    /\ pc = "report"
    /\ Committed = RepoIds
    /\ CollisionFilterOn(calls["r1"].prefs)
    /\ \E t \in TagsIn(events) :
        /\ t.repo.id = "r1" /\ t.name = 1
        /\ 1 \in PriorReleaseTags("r1")
        /\ \E rel \in RetainedReleases("r2") : rel.tagName = 1
    /\ \E t \in TagsIn(events) :
        /\ t.repo.id = "r1" /\ t.name = 2
        /\ \E rel \in ReleasesIn(Fetched("r1")) \ ReleasesIn(AfterMine("r1")) : rel.tagName = 2
    /\ \E t \in TagsIn(events) :
        /\ t.repo.id = "r1" /\ t.name = 3
        /\ \E rel \in ReleasesIn(AfterMine("r1")) \ ReleasesIn(AfterQuality("r1")) :
                rel.tagName = 3
    /\ RetainedReleases("r1") = {}

(***************************************************************************)
(* C31: a repository without an active kind.  At every point of a run, for *)
(* every repository the loop has skipped because its preferences resolve   *)
(* to no kind: no sync call has been made or is under way for it, the list *)
(* of events holds no activity event about it, and it is neither in the    *)
(* new snapshot nor, once the run has saved, in the state file.            *)
(***************************************************************************)
SkippedIds ==
    {r \in DOMAIN repo_names :
        Logged("INFO", "No tracked activity configured", repo_names[r]) > 0}

C31_EmptyKindsSkipped ==
    \A r \in SkippedIds :
        /\ r \notin Committed
        /\ pc = "session" => manager.repo.id # r
        /\ ActivityAbout(r) = <<>>
        /\ r \notin DOMAIN state.new_state
        /\ saves > 0 => r \notin DOMAIN state_file.snapshot

\* get_new_activity has returned after it skipped a repository that the
\* loaded snapshot holds with a cursor behind the newest item of its feed.
C31_Witness ==
    /\ pc = "report"
    /\ \E r \in SkippedIds :
        /\ r \in DOMAIN loaded.snapshot
        /\ \E it \in DOMAIN loaded.snapshot[r].cursors :
                StartOf(loaded.snapshot[r].cursors[it]) < Len(upstream[r][it])

(***************************************************************************)
(* C32: the timestamp and the user of a Tag event.  When a page of tags    *)
(* has been parsed, every event it yielded comes from the node of its name *)
(* so: for a Commit target the timestamp is committedDate and the user is  *)
(* the author's user, None when the commit has no author; for a Tag target *)
(* the timestamp is the tagger's date and the user is the tagger's user,   *)
(* which may be None; and the event is the viewer's own exactly when its   *)
(* user is not None and is the viewer, so never when the user is None.     *)
(***************************************************************************)
NodeNamed(name) == CHOOSE node \in Range(TagsRoot.nodes) : node.name = name

C32_TagEventFields ==
    pc = "parsed" =>
        \A i \in 1..Len(yielded) :
            LET ev == yielded[i]
                target == NodeNamed(ev.name).target
            IN  /\ target.typename \in {"Commit", "Tag"}
                /\ target.typename = "Commit" =>
                        /\ ev.timestamp = target.committedDate
                        /\ ev.user = IF target.author = NoneObject
                                     THEN NoneObject
                                     ELSE target.author.user
                /\ target.typename = "Tag" =>
                        /\ ev.timestamp = target.tagger.date
                        /\ ev.user = target.tagger.user
                /\ ev.user = NoneObject => ~is_mine(ev)
                /\ is_mine(ev) <=> (ev.user # NoneObject /\ ev.user.isViewer)

\* A page of three tags has been parsed: a commit of the viewer's, a commit
\* without an author and an annotated tag whose tagger has no user; the
\* first event is the viewer's own, the other two have no user and are not.
C32_Witness ==
    /\ pc = "parsed"
    /\ Len(yielded) = 3
    /\ NodeNamed(1).target.typename = "Commit" /\ is_mine(yielded[1])
    /\ yielded[1].timestamp = 2
    /\ NodeNamed(2).target.typename = "Commit" /\ NodeNamed(2).target.author = NoneObject
    /\ yielded[2].user = NoneObject /\ ~is_mine(yielded[2])
    /\ NodeNamed(3).target.typename = "Tag"
    /\ yielded[3].user = NoneObject /\ yielded[3].timestamp = 2

(***************************************************************************)
(* C33: a tracked repository without an active kind.  When                 *)
(* get_new_activity has returned, every repository of the loaded snapshot  *)
(* that the loop has skipped because its preferences resolve to no kind    *)
(* has not been committed, has exactly one Untracked event, carrying the   *)
(* repository as the loaded snapshot has it, and is absent from the new    *)
(* snapshot; when the run has saved, the state file no longer holds the    *)
(* repository nor its cursors.                                             *)
(***************************************************************************)
C33_SkippedIsUntracked ==
    Finished =>
        \A r \in SkippedIds \cap DOMAIN OldSnapshot :
            /\ r \notin Committed
            /\ EventsAbout(r, "untracked") = <<RepoUntrackedEvent(Now, OldSnapshot[r].repo)>>
            /\ EventsAbout(r, "tracked") = <<>>
            /\ EventsAbout(r, "renamed") = <<>>
            /\ r \notin DOMAIN state.new_state
            /\ saves > 0 => r \notin DOMAIN state_file.snapshot

\* A run has saved after skipping a repository that the service still has
\* and that the loaded snapshot held with a cursor at an item of its feed:
\* the run reported it Untracked and the file has lost its cursors.
C33_Witness ==
    /\ pc = "done"
    /\ saves = 1
    /\ \E r \in SkippedIds \cap DOMAIN OldSnapshot :
        /\ \E it \in DOMAIN OldSnapshot[r].cursors : OldSnapshot[r].cursors[it] # Null
        /\ Len(EventsAbout(r, "untracked")) = 1
        /\ r \notin DOMAIN state_file.snapshot

(***************************************************************************)
(* C34: snapshot partition.  When get_new_activity has returned: the keys  *)
(* of the new snapshot are exactly the ids of the repositories committed   *)
(* with set_cursors; every id of the loaded snapshot is either in the new  *)
(* snapshot and has no Untracked event, or is not and has exactly one; and *)
(* no repository id has more than one lifecycle event in the list.         *)
(***************************************************************************)
LifecycleAbout(r) ==
    SelectSeq(events, LAMBDA ev : /\ ev.event_type \in {"tracked", "renamed", "untracked"}
                                  /\ ev.repo.id = r)

C34_SnapshotPartition ==
    Finished =>
        /\ DOMAIN state.new_state = Committed
        /\ \A r \in DOMAIN OldSnapshot :
                IF r \in DOMAIN state.new_state
                THEN EventsAbout(r, "untracked") = <<>>
                ELSE Len(EventsAbout(r, "untracked")) = 1
        /\ \A r \in RepoIds : Len(LifecycleAbout(r)) <= 1

\* get_new_activity has returned with a list that holds an Untracked event
\* about one repository of the loaded snapshot and a Renamed event about
\* another, which is in the new snapshot.
C34_Witness ==
    /\ pc = "report"
    /\ \E r1, r2 \in DOMAIN OldSnapshot :
        /\ r1 # r2
        /\ r1 \notin DOMAIN state.new_state
        /\ Len(EventsAbout(r1, "untracked")) = 1
        /\ r2 \in DOMAIN state.new_state
        /\ Len(EventsAbout(r2, "renamed")) = 1

(***************************************************************************)
(* C35: the cursors of disabled kinds.  After every round trip of a sync   *)
(* call, each kind that the cursor map held when the call began and that   *)
(* is not among the kinds the session asks for has the cursor it had; and  *)
(* when get_new_activity has returned, each committed repository's new     *)
(* snapshot entry holds, for every such kind, the cursor of the loaded     *)
(* snapshot, as does the state file once the run has saved.                *)
(***************************************************************************)
DisabledKinds(r) == DOMAIN calls[r].cursors_in \ Range(calls[r].types)

C35_DisabledCursorsCarried ==
    /\ Tripped =>
          \A it \in DOMAIN cursors_in \ TypeSet :
              /\ it \in DOMAIN manager.cursors
              /\ manager.cursors[it] = cursors_in[it]
    /\ Finished =>
          \A r \in Committed :
              \A it \in DisabledKinds(r) :
                  /\ r \in DOMAIN OldSnapshot
                  /\ it \in DOMAIN state.new_state[r].cursors
                  /\ state.new_state[r].cursors[it] = OldSnapshot[r].cursors[it]
                  /\ saves > 0 => state_file.snapshot[r].cursors[it] = OldSnapshot[r].cursors[it]

\* A run has saved after a sync call that asked for issues only, for a
\* repository whose loaded snapshot held the cursor of another kind at an item
\* of its feed that is no longer the newest: the file holds that cursor still.
C35_Witness ==
    /\ pc = "done"
    /\ saves = 1
    /\ \E r \in Committed :
          /\ calls[r].types = <<"issue">>
          /\ \E it \in DisabledKinds(r) :
                /\ OldSnapshot[r].cursors[it] # Null
                /\ state_file.snapshot[r].cursors[it] = OldSnapshot[r].cursors[it]
                /\ StartOf(OldSnapshot[r].cursors[it]) < Len(upstream[r][it])

(***************************************************************************)
(* C36: lifecycle idempotence.  A run that saves stores every repository   *)
(* it committed under the full name the service has for it, and nothing    *)
(* else, so that the file a run loads tells which repositories the last    *)
(* saving run committed and under which names.  When get_new_activity has  *)
(* returned in a run that loaded a saved file and committed exactly the    *)
(* repositories of the loaded snapshot, each under the full name the       *)
(* snapshot has for it, its list holds no Tracked, no Renamed and no       *)
(* Untracked event.                                                        *)
(***************************************************************************)
Lifecycle == SelectSeq(events, LAMBDA ev : ev.event_type \in {"tracked", "renamed", "untracked"})

SameRepositories ==
    /\ loaded.exists
    /\ Committed = DOMAIN OldSnapshot
    /\ \A r \in Committed : OldSnapshot[r].repo = Repository(r, repo_names[r])

C36_LifecycleIdempotent ==
    /\ (pc = "done" /\ saves = 1) =>
          /\ DOMAIN state_file.snapshot = Committed
          /\ \A r \in Committed : state_file.snapshot[r].repo = Repository(r, repo_names[r])
    /\ (Finished /\ SameRepositories) => Lifecycle = <<>>

\* A run that loaded a saved snapshot of two repositories, one of them under
\* the name it was renamed to, has committed both again, reports activity and
\* no lifecycle event, and has saved.
C36_Witness ==
    /\ pc = "done"
    /\ saves = 1
    /\ SameRepositories
    /\ Committed = RepoIds
    /\ \E r \in Renamed : repo_names[r][2] > 0
    /\ events # <<>>
    /\ Lifecycle = <<>>

(***************************************************************************)
(* C37: session termination.  The service of the model reports an          *)
(* end-cursor with every page that is not the last, over feeds that are    *)
(* finite.  After every round trip that leaves has_next_page true, the     *)
(* cursor of at least one kind that the trip fetched forward is further    *)
(* along its feed than when the trip began, and no cursor has moved back   *)
(* or past the end of its feed; and the driver's loop running, every sync  *)
(* call reaches has_next_page false.                                       *)
(***************************************************************************)
C37_SessionTerminates ==
    /\ []((Tripped /\ manager.has_next_page) =>
            /\ \E it \in TypeSet \cap DOMAIN cursors_before :
                    /\ response.data.node[api_name(it)].pageInfo.hasNextPage
                    /\ response.data.node[api_name(it)].pageInfo.endCursor # Null
                    /\ StartOf(manager.cursors[it]) > StartOf(cursors_before[it])
            /\ \A it \in DOMAIN cursors_before :
                    /\ StartOf(manager.cursors[it]) >= StartOf(cursors_before[it])
                    /\ StartOf(manager.cursors[it]) <= Len(FeedOf(it)))
    /\ (pc = "session") ~> (~manager.has_next_page)

\* A sync call for two kinds has reached has_next_page false with its third
\* round trip.
C37_Witness ==
    /\ pc = "session"
    /\ trips = 3
    /\ ~manager.has_next_page
    /\ Cardinality(TypeSet) = 2
    /\ Len(collected) = MaxHist

(***************************************************************************)
(* C38: sending, then saving.                                              *)
(*  - A step in which composing or sending the e-mail raises is taken with *)
(*    events to report; it saves nothing, and the process ends with the    *)
(*    state file as the run loaded it.                                     *)
(*  - A step that saves is the step of main that has handed the events     *)
(*    over without an error, and the file then holds the new snapshot.     *)
(*  - When get_new_activity has returned no event, nothing is sent, so     *)
(*    nothing raises: main goes on to save the state (unless --no-save     *)
(*    was given, which leaves the file alone).                             *)
(*  - When get_new_activity has returned in the run that follows one that  *)
(*    raised, every item that a sync call of that run had returned has     *)
(*    been returned again by the sync call of this run for its repository, *)
(*    if that fetched the item's kind, and is reported again unless a      *)
(*    filter of this run dropped it.                                       *)
(***************************************************************************)
ItemsReported == {ItemOf(events[i]) : i \in {j \in 1..Len(events) : events[j].event_type \in Kinds}}

C38_SaveAfterSend ==
    /\ [][(pc = "report" /\ pc' = "raised") =>
                /\ events # <<>>
                /\ saves' = 0
                /\ state_file' = loaded]_vars
    /\ [][(pc = "raised" /\ pc' = "idle") => state_file' = loaded]_vars
    /\ [][saves' = saves + 1 =>
                /\ pc = "report" /\ pc' = "done"
                /\ state_file' = save(state)]_vars
    /\ [][(pc = "report" /\ events = <<>>) =>
                /\ pc' = "done"
                /\ \/ saves' = saves + 1 /\ state_file' = save(state)
                   \/ saves' = saves /\ state_file' = state_file]_vars
    /\ [](Finished =>
            \A x \in aborted :
                (x[1] \in Committed /\ x[2] \in Range(calls[x[1]].types)) =>
                    /\ x \in ItemsOf(calls[x[1]].events)
                    /\ x \in ItemsOf(Reported(x[1])) => x \in ItemsReported)

\* Sending has raised (the list holds a lifecycle event, so get_new_activity
\* had returned) in a run that follows one that raised: the list holds again
\* an item the run before had fetched, the new snapshot differs from the one
\* loaded, and the state file is as it was loaded.
C38_Witness ==
    /\ pc = "raised"
    /\ Lifecycle # <<>>
    /\ \E x \in aborted : x \in ItemsReported
    /\ loaded.exists
    /\ state.new_state # loaded.snapshot
    /\ state_file = loaded

====
